---- MODULE Spec2Model ----
(***************************************************************************)
(* Verification model of the lumbar angle smoothing filter (AngleFilter)   *)
(* and the dynamic stability analyzer (DynamicStabilityAnalyzer) of        *)
(* src/utils/geometryUtils.ts.                                             *)
(*                                                                         *)
(* TypeScript `number` is an IEEE-754 binary64.  The arithmetic of the     *)
(* code is modelled bit-exactly (round to nearest, ties to even) for the   *)
(* normal range; NaN, infinities, subnormals and the sign of zero are not  *)
(* modelled (no input of the model reaches them).                          *)
(***************************************************************************)
EXTENDS Integers, Sequences, FiniteSets, TLC

(***************************************************************************)
(* Unbounded naturals: little-endian sequences of limbs in base 2^15,      *)
(* without leading zero limbs (zero is the empty sequence).  They carry    *)
(* the 53-bit significands and their exact sums, products and quotients.   *)
(***************************************************************************)
Base == 2^15

RECURSIVE BNorm(_)
BNorm(a) ==
  IF a = <<>> THEN a
  ELSE IF a[Len(a)] = 0 THEN BNorm(SubSeq(a, 1, Len(a) - 1)) ELSE a

RECURSIVE BFromNat(_)
BFromNat(n) == IF n = 0 THEN <<>> ELSE <<n % Base>> \o BFromNat(n \div Base)

RECURSIVE BAddC(_, _, _)
BAddC(a, b, c) ==
  IF a = <<>> /\ b = <<>> THEN (IF c = 0 THEN <<>> ELSE <<c>>)
  ELSE LET x == IF a = <<>> THEN 0 ELSE Head(a)
           y == IF b = <<>> THEN 0 ELSE Head(b)
           t == x + y + c
       IN  <<t % Base>> \o BAddC(IF a = <<>> THEN a ELSE Tail(a),
                                 IF b = <<>> THEN b ELSE Tail(b),
                                 t \div Base)

BAdd(a, b) == BAddC(a, b, 0)

RECURSIVE BSubB(_, _, _)
BSubB(a, b, c) ==
  IF a = <<>> THEN <<>>
  ELSE LET y == IF b = <<>> THEN 0 ELSE Head(b)
           t == Head(a) - y - c
       IN  <<t % Base>> \o BSubB(Tail(a),
                                 IF b = <<>> THEN b ELSE Tail(b),
                                 IF t < 0 THEN 1 ELSE 0)

\* a - b for a >= b
BSub(a, b) == BNorm(BSubB(a, b, 0))

RECURSIVE BCmpAt(_, _, _)
BCmpAt(a, b, i) ==
  IF i = 0 THEN 0
  ELSE IF a[i] < b[i] THEN -1
  ELSE IF a[i] > b[i] THEN 1
  ELSE BCmpAt(a, b, i - 1)

\* -1, 0, 1 as a < b, a = b, a > b
BCmp(a, b) ==
  IF Len(a) < Len(b) THEN -1
  ELSE IF Len(a) > Len(b) THEN 1
  ELSE BCmpAt(a, b, Len(a))

RECURSIVE BMulLimb(_, _, _)
BMulLimb(a, d, c) ==
  IF a = <<>> THEN (IF c = 0 THEN <<>> ELSE <<c>>)
  ELSE LET t == Head(a) * d + c
       IN  <<t % Base>> \o BMulLimb(Tail(a), d, t \div Base)

RECURSIVE BMul(_, _)
BMul(a, b) ==
  IF a = <<>> \/ b = <<>> THEN <<>>
  ELSE BNorm(BAdd(BMulLimb(a, Head(b), 0), <<0>> \o BMul(a, Tail(b))))

\* a * 2^n
BShl(a, n) ==
  IF a = <<>> THEN a
  ELSE [i \in 1..(n \div 15) |-> 0] \o BMulLimb(a, 2^(n % 15), 0)

\* floor(a / 2^n)
BShr(a, n) ==
  LET k == n \div 15
      r == n % 15
      d == IF k >= Len(a) THEN <<>> ELSE SubSeq(a, k + 1, Len(a))
  IN  BNorm([i \in 1..Len(d) |->
              (d[i] \div 2^r)
              + (IF i < Len(d) THEN (d[i + 1] % 2^r) * 2^(15 - r) ELSE 0)])

BBitLen(a) ==
  IF a = <<>> THEN 0
  ELSE 15 * (Len(a) - 1)
       + (CHOOSE k \in 1..15 : 2^(k - 1) <= a[Len(a)] /\ a[Len(a)] < 2^k)

\* bit i (bit 0 is the least significant)
BBit(a, i) ==
  IF i \div 15 + 1 > Len(a) THEN 0
  ELSE (a[i \div 15 + 1] \div 2^(i % 15)) % 2

\* the largest g in lo..hi-1 with g * d <= r, given lo * d <= r < hi * d
RECURSIVE BDigit(_, _, _, _)
BDigit(r, d, lo, hi) ==
  IF hi - lo <= 1 THEN lo
  ELSE LET mid == (lo + hi) \div 2
       IN  IF BCmp(BMulLimb(d, mid, 0), r) <= 0
           THEN BDigit(r, d, mid, hi)
           ELSE BDigit(r, d, lo, mid)

\* long division, <<floor(n / d), n mod d>> for d # 0
RECURSIVE BDivMod(_, _)
BDivMod(n, d) ==
  IF n = <<>> THEN <<<<>>, <<>>>>
  ELSE LET p == BDivMod(Tail(n), d)
           r == BNorm(<<Head(n)>> \o p[2])
           g == BDigit(r, d, 0, Base)
       IN  <<BNorm(<<g>> \o p[1]), BSub(r, BMulLimb(d, g, 0))>>

(***************************************************************************)
(* binary64: zero, or sg * m * 2^e with sg in {1,-1} and 2^52 <= m < 2^53. *)
(***************************************************************************)
FZero == [sg |-> 1, m |-> <<>>, e |-> 0]

\* the binary64 nearest to sg * M * 2^E, ties to even
RoundToDouble(sg, M, E) ==
  IF M = <<>> THEN FZero
  ELSE LET L == BBitLen(M) IN
    IF L <= 53
    THEN [sg |-> sg, m |-> BShl(M, 53 - L), e |-> E - (53 - L)]
    ELSE LET s == L - 53
             q == BShr(M, s)
             half == BBit(M, s - 1) = 1
             sticky == BShl(BShr(M, s - 1), s - 1) # M
             up == half /\ (sticky \/ BBit(q, 0) = 1)
             q1 == IF up THEN BAddC(q, <<>>, 1) ELSE q
         IN  IF BBitLen(q1) > 53
             THEN [sg |-> sg, m |-> BShr(q1, 1), e |-> E + s + 1]
             ELSE [sg |-> sg, m |-> q1, e |-> E + s]

FIsZero(x) == x.m = <<>>
FSgn(x) == IF FIsZero(x) THEN 0 ELSE x.sg
FNeg(x) == IF FIsZero(x) THEN x ELSE [x EXCEPT !.sg = -x.sg]
FAbs(x) == [x EXCEPT !.sg = 1]

\* an integer literal or integer-valued number
FInt(n) == RoundToDouble(IF n < 0 THEN -1 ELSE 1,
                         BFromNat(IF n < 0 THEN -n ELSE n), 0)

FMul(x, y) ==
  IF FIsZero(x) \/ FIsZero(y) THEN FZero
  ELSE RoundToDouble(x.sg * y.sg, BMul(x.m, y.m), x.e + y.e)

FAdd(x, y) ==
  IF FIsZero(x) THEN y
  ELSE IF FIsZero(y) THEN x
  ELSE LET e == IF x.e < y.e THEN x.e ELSE y.e
           X == BShl(x.m, x.e - e)
           Y == BShl(y.m, y.e - e)
           c == BCmp(X, Y)
       IN  IF x.sg = y.sg THEN RoundToDouble(x.sg, BAdd(X, Y), e)
           ELSE IF c = 0 THEN FZero
           ELSE IF c > 0 THEN RoundToDouble(x.sg, BSub(X, Y), e)
           ELSE RoundToDouble(y.sg, BSub(Y, X), e)

FSub(x, y) == FAdd(x, FNeg(y))

\* x / y for y # 0
FDiv(x, y) ==
  IF FIsZero(x) THEN FZero
  ELSE LET qr == BDivMod(BShl(x.m, 60), y.m)
           M == BAddC(BShl(qr[1], 1), <<>>, IF qr[2] = <<>> THEN 0 ELSE 1)
       IN  RoundToDouble(x.sg * y.sg, M, x.e - y.e - 61)

\* a decimal literal n/d (0.3 is FDec(3, 10)): the binary64 nearest to it
FDec(n, d) == FDiv(FInt(n), FInt(d))

\* -1, 0, 1 as x < y, x = y, x > y
FCmp(x, y) ==
  IF FSgn(x) # FSgn(y) THEN (IF FSgn(x) < FSgn(y) THEN -1 ELSE 1)
  ELSE IF FSgn(x) = 0 THEN 0
  ELSE IF x.e # y.e THEN (IF x.e < y.e THEN -FSgn(x) ELSE FSgn(x))
  ELSE FSgn(x) * BCmp(x.m, y.m)

FLt(x, y) == FCmp(x, y) < 0
FLe(x, y) == FCmp(x, y) <= 0
FGt(x, y) == FLt(y, x)
FGe(x, y) == FLe(y, x)
FMax(x, y) == IF FLt(x, y) THEN y ELSE x
FMin(x, y) == IF FLt(y, x) THEN y ELSE x

\* the numeric literals of the code
F0 == FInt(0)
F1 == FInt(1)
F0_2 == FDec(2, 10)
F0_3 == FDec(3, 10)
F0_5 == FDec(5, 10)
F0_7 == FDec(7, 10)
F0_8 == FDec(8, 10)
F2_5 == FDec(5, 2)
F2 == FInt(2)
F5 == FInt(5)
F40 == FInt(40)
F50 == FInt(50)
F60 == FInt(60)
F80 == FInt(80)
F100 == FInt(100)

\* x * 2^k
FScale2(x, k) == IF FIsZero(x) THEN x ELSE [x EXCEPT !.e = @ + k]

(***************************************************************************)
(* State.                                                                  *)
(*   history        AngleFilter.history                                    *)
(*   lumbarHistory, hipHistory, timeHistory                                *)
(*                  the three histories of DynamicStabilityAnalyzer        *)
(*   out            <<v>> when the last operation was filter and returned  *)
(*                  v, <<>> otherwise                                      *)
(*   result         <<r>> when the last operation was                      *)
(*                  analyzeLumbarStability and returned r, <<>> otherwise  *)
(*   fed            the samples passed to filter since the last reset      *)
(*                  (observer, not read by the operations)                 *)
(*   discarded      how many buffered samples the last reset threw away    *)
(*                  (observer)                                             *)
(*   cleared        whether the last reset of the analyzer emptied a       *)
(*                  non-empty history (observer)                           *)
(*   added          the (lumbar, hip, timestamp) triples passed to         *)
(*                  addDataPoint since the last reset (observer)           *)
(*   script         the motion the analyzer is being fed (environment)     *)
(***************************************************************************)
VARIABLES history, out, fed, discarded,
          lumbarHistory, hipHistory, timeHistory, result, added, cleared,
          script, trial,
          testType, previousTestType, poseResult, movementHistory,
          isPlaying, isRecording, pending, epoch, tags, calls, angleFrames,
          frames, runs,
          flexion,
          timeSeriesData, now, starts, metrics, recordPending,
          attempt, retryCount, isLandmarkerReady, error, tried,
          landmarkerRef, unmounted, closed

filterVars == <<history, out, fed, discarded>>
stabilityVars ==
  <<lumbarHistory, hipHistory, timeHistory, result, added, cleared, script>>
scoreVars == <<trial>>
hookVars ==
  <<testType, previousTestType, poseResult, movementHistory, isPlaying,
    isRecording, pending, epoch, tags, calls, angleFrames, frames, runs>>
angleVars == <<flexion>>
seriesVars == <<timeSeriesData, now, starts, metrics, recordPending>>
landmarkerVars ==
  <<attempt, retryCount, isLandmarkerReady, error, tried, landmarkerRef,
    unmounted, closed>>
otherVars == <<angleVars, seriesVars, landmarkerVars>>
vars == <<history, out, fed, discarded,
          lumbarHistory, hipHistory, timeHistory, result, added, cleared,
          script, trial,
          testType, previousTestType, poseResult, movementHistory,
          isPlaying, isRecording, pending, epoch, tags, calls, angleFrames,
          frames, runs,
          flexion,
          timeSeriesData, now, starts, metrics, recordPending,
          attempt, retryCount, isLandmarkerReady, error, tried,
          landmarkerRef, unmounted, closed>>

\* e, after v has been evaluated (TLC evaluates the argument of an operator
\* where it is used; a loop needs the state of its earlier iterations first)
Then(v, e) == IF v = v THEN e ELSE e

\* the last n elements of s (all of s when it is shorter)
LastN(s, n) == IF Len(s) <= n THEN s ELSE SubSeq(s, Len(s) - n + 1, Len(s))

(***************************************************************************)
(* AngleFilter                                                             *)
(***************************************************************************)
\* number of filter calls explored after a reset
MaxCalls == 5

\* raw angles passed to the filter: 0, 3 and -1.8 degrees
Samples == {F0, FInt(3), FDec(-18, 10)}

AngleFilter_maxHistory == 3

\* variant of AngleFilter_push that never evicts
AngleFilter_push_noShift(h, angle) == Append(h, angle)

\* this.history.push(angle); if (length > maxHistory) this.history.shift()
AngleFilter_push(h, angle) ==
  LET pushed == Append(h, angle)
  IN  IF Len(pushed) > AngleFilter_maxHistory THEN Tail(pushed) ELSE pushed

\* variant of AngleFilter_weights whose three weights do not sum to 1
AngleFilter_weights_typo(n) ==
  IF n = 1 THEN <<F1>>
  ELSE IF n = 2 THEN <<F0_3, F0_7>>
  ELSE <<F0_2, F0_3, FDec(6, 10)>>

\* the weights filter applies to a buffer of n samples, oldest first
AngleFilter_weights(n) ==
  IF n = 1 THEN <<F1>>
  ELSE IF n = 2 THEN <<F0_3, F0_7>>
  ELSE <<F0_2, F0_3, F0_5>>

\* variant of AngleFilter_average that returns the newest sample unweighted
AngleFilter_average_newest(h) == h[Len(h)]

\* the weighted moving average filter returns for the buffer h
AngleFilter_average(h) ==
  LET w == AngleFilter_weights(Len(h))
  IN  IF Len(h) = 1 THEN h[1]
      ELSE IF Len(h) = 2
      THEN FAdd(FMul(h[1], w[1]), FMul(h[2], w[2]))
      ELSE FAdd(FAdd(FMul(h[1], w[1]), FMul(h[2], w[2])), FMul(h[3], w[3]))

AngleFilter_filter(angle) ==
  /\ Len(fed) < MaxCalls
  /\ history' = AngleFilter_push(history, angle)
  /\ out' = <<AngleFilter_average(history')>>
  /\ fed' = Append(fed, angle)
  /\ UNCHANGED discarded
  /\ UNCHANGED stabilityVars
  /\ UNCHANGED <<scoreVars, hookVars, otherVars>>

\* variant of AngleFilter_reset that leaves the buffer as it is
AngleFilter_reset_keep ==
  /\ history' = history
  /\ out' = <<>>
  /\ fed' = <<>>
  /\ discarded' = Len(history)
  /\ UNCHANGED stabilityVars
  /\ UNCHANGED <<scoreVars, hookVars, otherVars>>

AngleFilter_reset ==
  /\ history' = <<>>
  /\ out' = <<>>
  /\ fed' = <<>>
  /\ discarded' = Len(history)
  /\ UNCHANGED stabilityVars
  /\ UNCHANGED <<scoreVars, hookVars, otherVars>>

InitFilter ==
  /\ history = <<>>
  /\ out = <<>>
  /\ fed = <<>>
  /\ discarded = 0

NextFilter ==
  \/ \E angle \in Samples : AngleFilter_filter(angle)
  \/ AngleFilter_reset

(***************************************************************************)
(* DynamicStabilityAnalyzer.  Indices into the histories are 0-based as    *)
(* in the code: element i of a history h is h[i + 1].                      *)
(***************************************************************************)
DSA_maxHistory == 150

\* variant of addDataPoint that forgets to evict the oldest timestamp
addDataPoint_timeKept(lumbarAngle, hipAngle, timestamp) ==
  LET pushedLumbar == Append(lumbarHistory, lumbarAngle)
      pushedHip == Append(hipHistory, hipAngle)
      over == Len(pushedLumbar) > DSA_maxHistory
  IN  /\ lumbarHistory' = IF over THEN Tail(pushedLumbar) ELSE pushedLumbar
      /\ hipHistory' = IF over THEN Tail(pushedHip) ELSE pushedHip
      /\ timeHistory' = Append(timeHistory, timestamp)
      /\ result' = <<>>
      /\ added' = Append(added, <<lumbarAngle, hipAngle, timestamp>>)
      /\ UNCHANGED cleared
      /\ UNCHANGED filterVars

addDataPoint(lumbarAngle, hipAngle, timestamp) ==
  LET pushedLumbar == Append(lumbarHistory, lumbarAngle)
      pushedHip == Append(hipHistory, hipAngle)
      pushedTime == Append(timeHistory, timestamp)
      over == Len(pushedLumbar) > DSA_maxHistory
  IN  /\ lumbarHistory' = IF over THEN Tail(pushedLumbar) ELSE pushedLumbar
      /\ hipHistory' = IF over THEN Tail(pushedHip) ELSE pushedHip
      /\ timeHistory' = IF over THEN Tail(pushedTime) ELSE pushedTime
      /\ result' = <<>>
      /\ added' = Append(added, <<lumbarAngle, hipAngle, timestamp>>)
      /\ UNCHANGED cleared
      /\ UNCHANGED filterVars

\* Math.max(...) and Math.min(...) of the elements lo..hi (1-based) of s
RECURSIVE MathMax(_, _, _)
MathMax(s, lo, hi) ==
  IF lo = hi THEN s[lo]
  ELSE LET mid == (lo + hi) \div 2
       IN  FMax(MathMax(s, lo, mid), MathMax(s, mid + 1, hi))

RECURSIVE MathMin(_, _, _)
MathMin(s, lo, hi) ==
  IF lo = hi THEN s[lo]
  ELSE LET mid == (lo + hi) \div 2
       IN  FMin(MathMin(s, lo, mid), MathMin(s, mid + 1, hi))

\* max - min of hip.slice(start, end + 1)
calculateHipRangeInPhase(hip, start, end) ==
  FSub(MathMax(hip, start + 1, end + 1), MathMin(hip, start + 1, end + 1))

\* variant of calculateLumbarRangeInPhase that slices to end exclusively
calculateLumbarRangeInPhase_exclusive(lumbar, start, end) ==
  FSub(MathMax(lumbar, start + 1, end), MathMin(lumbar, start + 1, end))

\* max - min of lumbar.slice(start, end + 1)
calculateLumbarRangeInPhase(lumbar, start, end) ==
  FSub(MathMax(lumbar, start + 1, end + 1), MathMin(lumbar, start + 1, end + 1))

threshold == F5
thresholdHalf == FDiv(threshold, F2)
minPhaseDuration == 15

\* variant of detectStep that retains a phase of any duration
detectStep_anyDuration(hip, st, i) ==
  LET hipChange == FAbs(FSub(hip[i + 1], hip[i]))
  IN  IF ~st.inMovement /\ FGt(hipChange, threshold)
      THEN [st EXCEPT !.inMovement = TRUE, !.phaseStart = i]
      ELSE IF st.inMovement /\ FLt(hipChange, thresholdHalf)
      THEN [st EXCEPT
              !.inMovement = FALSE,
              !.phases =
                 Append(@, [start |-> st.phaseStart, end |-> i,
                            hipRange |-> calculateHipRangeInPhase(
                                           hip, st.phaseStart, i)])]
      ELSE st

\* variant of detectStep that records the frame after the first fast change
\* as the start of the phase
detectStep_lateStart(hip, st, i) ==
  LET hipChange == FAbs(FSub(hip[i + 1], hip[i]))
  IN  IF ~st.inMovement /\ FGt(hipChange, threshold)
      THEN [st EXCEPT !.inMovement = TRUE, !.phaseStart = i + 1]
      ELSE IF st.inMovement /\ FLt(hipChange, thresholdHalf)
      THEN [st EXCEPT
              !.inMovement = FALSE,
              !.phases =
                 IF i - st.phaseStart >= minPhaseDuration
                 THEN Append(@, [start |-> st.phaseStart, end |-> i,
                                 hipRange |-> calculateHipRangeInPhase(
                                                hip, st.phaseStart, i)])
                 ELSE @]
      ELSE st

\* variant of detectStep that starts a phase at a change of exactly 5 too
detectStep_inclusive(hip, st, i) ==
  LET hipChange == FAbs(FSub(hip[i + 1], hip[i]))
  IN  IF ~st.inMovement /\ FGe(hipChange, threshold)
      THEN [st EXCEPT !.inMovement = TRUE, !.phaseStart = i]
      ELSE IF st.inMovement /\ FLt(hipChange, thresholdHalf)
      THEN [st EXCEPT
              !.inMovement = FALSE,
              !.phases =
                 IF i - st.phaseStart >= minPhaseDuration
                 THEN Append(@, [start |-> st.phaseStart, end |-> i,
                                 hipRange |-> calculateHipRangeInPhase(
                                                hip, st.phaseStart, i)])
                 ELSE @]
      ELSE st

\* variant of detectStep that leaves a phase open after retaining it
detectStep_staysOpen(hip, st, i) ==
  LET hipChange == FAbs(FSub(hip[i + 1], hip[i]))
  IN  IF ~st.inMovement /\ FGt(hipChange, threshold)
      THEN [st EXCEPT !.inMovement = TRUE, !.phaseStart = i]
      ELSE IF st.inMovement /\ FLt(hipChange, thresholdHalf)
      THEN [st EXCEPT
              !.inMovement = (i - st.phaseStart >= minPhaseDuration),
              !.phases =
                 IF i - st.phaseStart >= minPhaseDuration
                 THEN Append(@, [start |-> st.phaseStart, end |-> i,
                                 hipRange |-> calculateHipRangeInPhase(
                                                hip, st.phaseStart, i)])
                 ELSE @]
      ELSE st

\* iteration i of the loop of detectHipMovementPhases, from the loop state st
detectStep(hip, st, i) ==
  LET hipChange == FAbs(FSub(hip[i + 1], hip[i]))
  IN  IF ~st.inMovement /\ FGt(hipChange, threshold)
      THEN [st EXCEPT !.inMovement = TRUE, !.phaseStart = i]
      ELSE IF st.inMovement /\ FLt(hipChange, thresholdHalf)
      THEN [st EXCEPT
              !.inMovement = FALSE,
              !.phases =
                 IF i - st.phaseStart >= minPhaseDuration
                 THEN Append(@, [start |-> st.phaseStart, end |-> i,
                                 hipRange |-> calculateHipRangeInPhase(
                                                hip, st.phaseStart, i)])
                 ELSE @]
      ELSE st

\* iterations lo..hi of the loop, in increasing order of i: first lo..mid,
\* then mid+1..hi from the state the first part leaves
RECURSIVE detectLoop(_, _, _, _)
detectLoop(hip, st, lo, hi) ==
  IF lo > hi THEN st
  ELSE IF lo = hi THEN detectStep(hip, st, lo)
  ELSE LET mid == (lo + hi) \div 2
           first == detectLoop(hip, st, lo, mid)
       IN  Then(first, detectLoop(hip, first, mid + 1, hi))

\* variant of closeOpenPhase that retains an open phase of any duration
closeOpenPhase_anyDuration(hip, st) ==
  IF st.inMovement
  THEN Append(st.phases,
              [start |-> st.phaseStart, end |-> Len(hip) - 1,
               hipRange |-> calculateHipRangeInPhase(
                              hip, st.phaseStart, Len(hip) - 1)])
  ELSE st.phases

\* variant of closeOpenPhase that drops the phase still open
closeOpenPhase_dropOpen(hip, st) == st.phases

\* lines 349-359: the phase still open when the loop ends
closeOpenPhase(hip, st) ==
  IF st.inMovement /\ Len(hip) - st.phaseStart >= minPhaseDuration
  THEN Append(st.phases,
              [start |-> st.phaseStart, end |-> Len(hip) - 1,
               hipRange |-> calculateHipRangeInPhase(
                              hip, st.phaseStart, Len(hip) - 1)])
  ELSE st.phases

detectHipMovementPhases(hip) ==
  closeOpenPhase(hip,
                 detectLoop(hip,
                            [inMovement |-> FALSE, phaseStart |-> 0,
                             phases |-> <<>>],
                            1, Len(hip) - 1))

\* totalLumbarVariation after the first k phases
RECURSIVE totalLumbarVariation(_, _, _)
totalLumbarVariation(lumbar, phases, k) ==
  IF k = 0 THEN F0
  ELSE FAdd(totalLumbarVariation(lumbar, phases, k - 1),
            calculateLumbarRangeInPhase(lumbar, phases[k].start, phases[k].end))

\* totalHipMovement after the first k phases
RECURSIVE totalHipMovement(_, _)
totalHipMovement(phases, k) ==
  IF k = 0 THEN F0
  ELSE FAdd(totalHipMovement(phases, k - 1), phases[k].hipRange)

\* variant of ratioOf that yields a ratio where there is no movement to
\* divide by
ratioOf_undivided(variation, movement) ==
  IF FGt(movement, F0) THEN FDiv(variation, movement) ELSE F100

\* variant of ratioOf that divides the movement by the variation
ratioOf_inverted(variation, movement) ==
  IF FGt(variation, F0) THEN FDiv(movement, variation) ELSE F0

\* lines 258 and 295: variation / movement, 0 without movement
ratioOf(variation, movement) ==
  IF FGt(movement, F0) THEN FDiv(variation, movement) ELSE F0

\* variant of scoreOf without the clamp at 0
scoreOf_unclamped(ratio) == FSub(F100, FMul(ratio, F100))

\* lines 259 and 296: Math.max(0, 100 - ratio * 100)
scoreOf(ratio) == FMax(F0, FSub(F100, FMul(ratio, F100)))

\* line 266: the grade of the short-history branch
shortGrade(score) ==
  IF FGe(score, F60) THEN "good"
  ELSE IF FGe(score, F40) THEN "fair"
  ELSE "poor"

\* lines 302-306
gradeOf(lumbarStabilityScore) ==
  IF FGe(lumbarStabilityScore, F80) THEN "excellent"
  ELSE IF FGe(lumbarStabilityScore, F60) THEN "good"
  ELSE IF FGe(lumbarStabilityScore, F40) THEN "fair"
  ELSE "poor"

\* variant of shortGraded that reports no ratio
shortGraded_noRatio(recentLumbarVariation, ratio, score) ==
  [hipMovementPhases |-> <<>>,
   lumbarStabilityScore |-> score,
   lumbarExcessiveMovement |-> recentLumbarVariation,
   hipLumbarRatio |-> F0,
   stabilityGrade |-> shortGrade(score)]

\* lines 261-267, from the score
shortGraded(recentLumbarVariation, ratio, score) ==
  [hipMovementPhases |-> <<>>,
   lumbarStabilityScore |-> score,
   lumbarExcessiveMovement |-> recentLumbarVariation,
   hipLumbarRatio |-> ratio,
   stabilityGrade |-> shortGrade(score)]

\* lines 258-267, from the two variations
shortScored(recentLumbarVariation, ratio) ==
  shortGraded(recentLumbarVariation, ratio, scoreOf(ratio))

shortResult(recentLumbarVariation, recentHipVariation) ==
  shortScored(recentLumbarVariation,
              ratioOf(recentLumbarVariation, recentHipVariation))

\* lines 299-314, from the score
fullGraded(hipMovementPhases, totalLumbar, totalHip, hipLumbarRatio, lumbarStabilityScore) ==
  [hipMovementPhases |-> hipMovementPhases,
   lumbarStabilityScore |-> lumbarStabilityScore,
   lumbarExcessiveMovement |->
     FMax(F0, FSub(totalLumbar, FMul(totalHip, F0_3))),
   hipLumbarRatio |-> hipLumbarRatio,
   stabilityGrade |-> gradeOf(lumbarStabilityScore)]

fullScored(hipMovementPhases, totalLumbar, totalHip, hipLumbarRatio) ==
  fullGraded(hipMovementPhases, totalLumbar, totalHip, hipLumbarRatio,
             scoreOf(hipLumbarRatio))

\* lines 294-314, from the two totals
fullResult(hipMovementPhases, totalLumbar, totalHip) ==
  fullScored(hipMovementPhases, totalLumbar, totalHip,
             ratioOf(totalLumbar, totalHip))

\* lines 282-314, from the detected phases
phasesResult(lumbar, hipMovementPhases) ==
  fullResult(hipMovementPhases,
             totalLumbarVariation(lumbar, hipMovementPhases,
                                  Len(hipMovementPhases)),
             totalHipMovement(hipMovementPhases, Len(hipMovementPhases)))

\* variant of LumbarStability that takes a history of 10 samples for short
LumbarStability_tenIsShort(lumbar, hip) ==
  IF Len(hip) <= 10
  THEN IF Len(lumbar) > 0 /\ Len(hip) > 0
       THEN shortResult(IF Len(lumbar) > 1
                        THEN FAbs(FSub(lumbar[Len(lumbar)], lumbar[1]))
                        ELSE F0,
                        IF Len(hip) > 1
                        THEN FAbs(FSub(hip[Len(hip)], hip[1]))
                        ELSE F0)
       ELSE [hipMovementPhases |-> <<>>,
             lumbarStabilityScore |-> F50,
             lumbarExcessiveMovement |-> F0,
             hipLumbarRatio |-> F0,
             stabilityGrade |-> "fair"]
  ELSE phasesResult(lumbar, detectHipMovementPhases(hip))

\* the value analyzeLumbarStability returns for the given histories
LumbarStability(lumbar, hip) ==
  IF Len(hip) < 10
  THEN IF Len(lumbar) > 0 /\ Len(hip) > 0
       THEN shortResult(IF Len(lumbar) > 1
                        THEN FAbs(FSub(lumbar[Len(lumbar)], lumbar[1]))
                        ELSE F0,
                        IF Len(hip) > 1
                        THEN FAbs(FSub(hip[Len(hip)], hip[1]))
                        ELSE F0)
       ELSE [hipMovementPhases |-> <<>>,
             lumbarStabilityScore |-> F50,
             lumbarExcessiveMovement |-> F0,
             hipLumbarRatio |-> F0,
             stabilityGrade |-> "fair"]
  ELSE phasesResult(lumbar, detectHipMovementPhases(hip))

\* variant of analyzeLumbarStability that consumes the timestamps
analyzeLumbarStability_clearsTime ==
  /\ result' = <<LumbarStability(lumbarHistory, hipHistory)>>
  /\ timeHistory' = <<>>
  /\ UNCHANGED <<lumbarHistory, hipHistory, added, cleared>>
  /\ UNCHANGED filterVars

analyzeLumbarStability ==
  /\ result' = <<LumbarStability(lumbarHistory, hipHistory)>>
  /\ UNCHANGED <<lumbarHistory, hipHistory, timeHistory, added, cleared>>
  /\ UNCHANGED filterVars

DynamicStabilityAnalyzer_reset ==
  /\ lumbarHistory' = <<>>
  /\ hipHistory' = <<>>
  /\ timeHistory' = <<>>
  /\ result' = <<>>
  /\ added' = <<>>
  /\ cleared' = (Len(lumbarHistory) > 0)
  /\ UNCHANGED filterVars

(***************************************************************************)
(* The frames fed to the analyzer.  Script 0 is free: any of a few angle   *)
(* pairs per frame, for MaxFree frames.  Scripts 1..4 are a repeated hip   *)
(* flexion and return: the hip holds for HoldFrames, rises by HipStep      *)
(* degrees per frame for RampFrames, holds, and returns at the same rate;  *)
(* the lumbar angle follows one frame later by LumbarStep[script] degrees  *)
(* per frame.  Timestamps advance by FrameMs per frame.  Script 5 is a     *)
(* single slow sweep: the hip rises linearly from 0 to 80 degrees over     *)
(* frames 10..40 while the lumbar angle rises from 0 to 40.  Scripts 6 and *)
(* 7 list the hip angle of every frame in half degrees: 6 is made of       *)
(* 5-frame ramps of 6 degrees per frame separated by flat frames, 7 mixes  *)
(* frame-to-frame changes below, at, between and above 2.5 and 5 degrees.  *)
(***************************************************************************)
MaxFree == 3
MaxAdds == 152
MaxShort == 50
FrameMs == 33
HoldFrames == 4
RampFrames == 20
HipStep == 6
LumbarStep == <<1, 2, 3, 7>>
Scripts == 0..7

ShortRampHip ==
  <<0, 0, 0, 12, 24, 36, 48, 60, 60, 72, 84, 96, 108, 120, 120, 120, 108, 96,
    84, 72, 60, 60, 48, 36, 24, 12, 0, 0, 0, 0, 12, 24, 36, 48, 60, 60>>

MixedHip ==
  <<0, 0, 10, 15, 27, 17, 12, 18, 28, 33, 25, 35, 41, 46, 36, 44, 50, 60, 65,
    71, 75, 85, 85, 99, 104, 104, 110, 122, 132, 122, 127, 133, 143, 138, 146,
    156, 162, 167, 177, 185, 191, 201, 206, 212, 222, 230>>

\* frame k of the slow sweep: total * (k - 10) / 30 between frames 10 and 40
SweepAngle(total, k) ==
  IF k < 10 THEN F0
  ELSE IF k > 40 THEN FInt(total)
  ELSE FDiv(FInt(total * (k - 10)), FInt(30))

FreeAngles == {<<FInt(l), FInt(h)>> : l \in {0, 5, 10}, h \in {0, 10}}

ScriptLen(s) ==
  IF s = 0 THEN MaxFree
  ELSE IF s = 1 \/ s = 5 THEN MaxAdds
  ELSE IF s = 6 THEN Len(ShortRampHip)
  ELSE IF s = 7 THEN Len(MixedHip)
  ELSE MaxShort

\* position, in steps, k frames into the flexion-and-return cycle
Wave(k) ==
  LET period == 2 * (HoldFrames + RampFrames)
      p == k % period
  IN  IF k < 0 \/ p < HoldFrames THEN 0
      ELSE IF p < HoldFrames + RampFrames THEN p - HoldFrames + 1
      ELSE IF p < 2 * HoldFrames + RampFrames THEN RampFrames
      ELSE period - p - 1

\* the angle pairs frame k of script s may carry
ScriptAngles(s, k) ==
  IF s = 0 THEN FreeAngles
  ELSE IF s = 5 THEN {<<SweepAngle(40, k), SweepAngle(80, k)>>}
  ELSE IF s = 6 THEN {<<FInt(k % 4), FDec(ShortRampHip[k + 1], 2)>>}
  ELSE IF s = 7 THEN {<<FInt(k % 4), FDec(MixedHip[k + 1], 2)>>}
  ELSE {<<FInt(LumbarStep[s] * Wave(k - 1)), FInt(HipStep * Wave(k))>>}

AddFrame ==
  \E s \in Scripts :
    /\ UNCHANGED <<scoreVars, hookVars, otherVars>>
    /\ Len(added) = 0 \/ s = script
    /\ Len(added) < ScriptLen(s)
    /\ script' = s
    /\ \E a \in ScriptAngles(s, Len(added)) :
         addDataPoint(a[1], a[2], FrameMs * Len(added))

Analyze ==
  analyzeLumbarStability /\ UNCHANGED <<script, trial, hookVars, otherVars>>

ResetStability ==
  /\ DynamicStabilityAnalyzer_reset
  /\ script' = 0
  /\ UNCHANGED <<scoreVars, hookVars, otherVars>>

InitStability ==
  /\ lumbarHistory = <<>>
  /\ hipHistory = <<>>
  /\ timeHistory = <<>>
  /\ result = <<>>
  /\ added = <<>>
  /\ cleared = FALSE
  /\ script = 0

NextStability == AddFrame \/ Analyze \/ ResetStability

(***************************************************************************)
(* The score as a function of the two totals: a trial scores two analyses  *)
(* that accumulated the same totalHipMovement and the totalLumbarVariation *)
(* lumbarA and lumbarB.  RoundingRange is the range of a lumbar history    *)
(* made of the filter's outputs for the constant raw angle -1.8.           *)
(***************************************************************************)
RoundingRange ==
  FAbs(FSub(AngleFilter_average(<<FDec(-18, 10), FDec(-18, 10),
                                  FDec(-18, 10)>>),
            FDec(-18, 10)))

HipTotals == {FInt(3), FInt(60), FInt(114), FInt(120)}

LumbarTotals ==
  {F0, RoundingRange, F1, FInt(30), FDec(599, 10), FInt(60), FInt(61),
   FInt(120)}

ScoreTrial(hip, lumbarA, lumbarB) ==
  /\ trial = <<>>
  /\ trial' =
       <<[hip |-> hip, lumbarA |-> lumbarA, lumbarB |-> lumbarB,
          scoreA |-> fullResult(<<>>, lumbarA, hip).lumbarStabilityScore,
          scoreB |-> fullResult(<<>>, lumbarB, hip).lumbarStabilityScore]>>
  /\ UNCHANGED filterVars
  /\ UNCHANGED stabilityVars
  /\ UNCHANGED <<hookVars, otherVars>>

InitScore == trial = <<>>

NextScore ==
  \E hip \in HipTotals : \E lumbarA, lumbarB \in LumbarTotals :
    ScoreTrial(hip, lumbarA, lumbarB)

(***************************************************************************)
(* The frame pipeline: usePoseLandmarker delivers pose results, the effect *)
(* of useMetrics passes the lumbar angle of the current result to the      *)
(* filter, and the effects of NewLumbarMotorControlApp switch the video on *)
(* a test-type change and start and stop the recording.  pending tells     *)
(* which effects have a changed dependency: metrics for the effect of      *)
(* useMetrics ("changed" after a new result or test type, "again" after    *)
(* the effect itself replaced movementHistory), autoRecord for the auto    *)
(* recording effect, and videoSwitch for the test-type effect, which runs  *)
(* after the effect of useMetrics of the same commit ("afterMetrics", then *)
(* "ready").  The effects of a commit run before the next event; the       *)
(* re-run the effect schedules for itself comes in a later commit, and an  *)
(* event may arrive first.  epoch counts the                               *)
(* test-type changes and the recordings started; a pose result carries    *)
(* the epochs it was delivered in; tags holds, for each sample in the      *)
(* filter buffer, its frame, the epochs that frame was taken in and the    *)
(* test-type epoch of the effect run that pushed it; calls counts the      *)
(* filter calls since the last new result or test type;                    *)
(* angleFrames is the set of frames a lumbar angle was computed for since  *)
(* the last resetAngleFilter.                                              *)
(***************************************************************************)
MaxFrames == 2
MaxRuns == 5
MaxChanges == 1
MaxRecordings == 1

TestTypes == {"standingHipFlex", "rockBack", "seatedKneeExt"}

\* what a pose result carries: no world landmarks, shoulders or hips not
\* visible, or a raw lumbar angle
PoseKinds ==
  {[world |-> FALSE, visible |-> FALSE, angle |-> F0],
   [world |-> TRUE, visible |-> FALSE, angle |-> F0]}
  \cup {[world |-> TRUE, visible |-> TRUE, angle |-> a] :
          a \in {FInt(3), FDec(-18, 10)}}

\* no effect of the current commit is waiting to run
Flushed ==
  /\ pending.metrics # "changed"
  /\ pending.videoSwitch = "idle"
  /\ ~pending.autoRecord

\* usePoseLandmarker.ts line 242: setResult with a new object
setResult(kind) ==
  /\ Flushed
  /\ frames < MaxFrames
  /\ frames' = frames + 1
  /\ poseResult' = <<[frame |-> frames + 1, world |-> kind.world,
                      visible |-> kind.visible, angle |-> kind.angle,
                      type |-> epoch.type, recording |-> epoch.recording]>>
  /\ pending' = [pending EXCEPT !.metrics = "changed"]
  /\ calls' = 0
  /\ UNCHANGED <<testType, previousTestType, movementHistory, isPlaying,
                 isRecording, epoch, tags, angleFrames, runs>>
  /\ UNCHANGED <<filterVars, stabilityVars, scoreVars, otherVars>>

\* the user selects another test type
setTestType(t) ==
  /\ Flushed
  /\ t # testType
  /\ epoch.type < MaxChanges
  /\ testType' = t
  /\ epoch' = [epoch EXCEPT !.type = @ + 1]
  /\ pending' = [pending EXCEPT !.metrics = "changed",
                                !.videoSwitch = "afterMetrics"]
  /\ calls' = 0
  /\ UNCHANGED <<previousTestType, poseResult, movementHistory, isPlaying,
                 isRecording, tags, angleFrames, frames, runs>>
  /\ UNCHANGED <<filterVars, stabilityVars, scoreVars, otherVars>>

\* useMetrics.ts line 24
testTypeChanged(previous, current) ==
  previous # <<>> /\ previous # <<current>>

\* what resetAngleFilter, when called, and the rest of the effect leave in
\* the analyzer: nothing in the pipeline adds a data point
effectOnAnalyzer(reset) ==
  IF reset
  THEN /\ lumbarHistory' = <<>>
       /\ hipHistory' = <<>>
       /\ timeHistory' = <<>>
       /\ result' = <<>>
       /\ added' = <<>>
       /\ cleared' = (Len(lumbarHistory) > 0)
       /\ UNCHANGED script
  ELSE UNCHANGED stabilityVars

\* the filter after the effect: reset first when the test type changed,
\* then one call of filter when a lumbar angle is computed
effectOnFilter(reset, computes, angle, tag) ==
  /\ history' = IF computes
                THEN AngleFilter_push(IF reset THEN <<>> ELSE history, angle)
                ELSE IF reset THEN <<>> ELSE history
  /\ out' = IF computes THEN <<AngleFilter_average(history')>>
            ELSE IF reset THEN <<>> ELSE out
  /\ fed' = IF computes THEN Append(IF reset THEN <<>> ELSE fed, angle)
            ELSE IF reset THEN <<>> ELSE fed
  /\ discarded' = IF reset THEN Len(history) ELSE discarded
  /\ tags' = IF computes
             THEN AngleFilter_push(IF reset THEN <<>> ELSE tags, tag)
             ELSE IF reset THEN <<>> ELSE tags
  /\ angleFrames' = IF computes
                    THEN (IF reset THEN {} ELSE angleFrames) \cup {tag.frame}
                    ELSE IF reset THEN {} ELSE angleFrames
  /\ calls' = IF computes THEN calls + 1 ELSE calls

\* useMetrics.ts lines 22-149, for a result with world landmarks or without
useMetricsEffect(reset, valid, computes) ==
  /\ previousTestType' = <<testType>>
  /\ movementHistory' =
       IF valid THEN LastN(Append(movementHistory, poseResult[1].frame), 20)
       ELSE movementHistory
  /\ pending' = [pending EXCEPT
                   !.metrics = IF valid THEN "again" ELSE "idle",
                   !.videoSwitch = IF @ = "afterMetrics" THEN "ready" ELSE @]
  /\ effectOnFilter(reset, computes,
                    IF computes THEN poseResult[1].angle ELSE F0,
                    IF computes
                    THEN [frame |-> poseResult[1].frame,
                          takenType |-> poseResult[1].type,
                          takenRecording |-> poseResult[1].recording,
                          type |-> epoch.type]
                    ELSE [frame |-> 0, takenType |-> 0, takenRecording |-> 0,
                          type |-> 0])
  /\ effectOnAnalyzer(reset)
  /\ runs' = runs + 1
  /\ UNCHANGED <<testType, poseResult, isPlaying, isRecording, epoch, frames>>
  /\ UNCHANGED <<scoreVars, otherVars>>

MetricsEffect ==
  /\ pending.metrics # "idle"
  /\ pending.videoSwitch # "ready"
  /\ runs < MaxRuns
  /\ useMetricsEffect(testTypeChanged(previousTestType, testType),
                      poseResult # <<>> /\ poseResult[1].world,
                      poseResult # <<>> /\ poseResult[1].world
                        /\ poseResult[1].visible)

\* NewLumbarMotorControlApp.tsx lines 497-540
VideoSwitchEffect ==
  /\ pending.videoSwitch = "ready"
  /\ isRecording' = FALSE
  /\ isPlaying' = FALSE
  /\ pending' = [pending EXCEPT !.videoSwitch = "idle",
                                !.autoRecord = (@ \/ isPlaying)]
  /\ history' = <<>>
  /\ out' = <<>>
  /\ fed' = <<>>
  /\ discarded' = Len(history)
  /\ tags' = <<>>
  /\ angleFrames' = {}
  /\ effectOnAnalyzer(TRUE)
  /\ UNCHANGED <<testType, previousTestType, poseResult, movementHistory,
                 epoch, calls, frames, runs>>
  /\ UNCHANGED <<scoreVars, otherVars>>

\* useTimeSeriesData.ts lines 32-41: no filter or analyzer state is touched
startRecording ==
  /\ isRecording' = TRUE
  /\ epoch' = [epoch EXCEPT !.recording = @ + 1]

\* the user plays or pauses the video
setIsPlaying(playing) ==
  /\ Flushed
  /\ playing # isPlaying
  /\ playing => epoch.recording < MaxRecordings
  /\ isPlaying' = playing
  /\ pending' = [pending EXCEPT !.autoRecord = TRUE]
  /\ UNCHANGED <<testType, previousTestType, poseResult, movementHistory,
                 isRecording, epoch, tags, calls, angleFrames, frames, runs>>
  /\ UNCHANGED <<filterVars, stabilityVars, scoreVars, otherVars>>

\* NewLumbarMotorControlApp.tsx lines 425-454
AutoRecordEffect ==
  /\ pending.autoRecord
  /\ pending.videoSwitch = "idle"
  /\ pending' = [pending EXCEPT !.autoRecord = FALSE]
  /\ IF isPlaying /\ ~isRecording THEN startRecording
     ELSE IF ~isPlaying /\ isRecording
     THEN isRecording' = FALSE /\ UNCHANGED epoch
     ELSE UNCHANGED <<isRecording, epoch>>
  /\ UNCHANGED <<testType, previousTestType, poseResult, movementHistory,
                 isPlaying, tags, calls, angleFrames, frames, runs>>
  /\ UNCHANGED <<filterVars, stabilityVars, scoreVars, otherVars>>

\* NewLumbarMotorControlApp.tsx lines 642-650
toggleRecording ==
  /\ Flushed
  /\ isRecording \/ epoch.recording < MaxRecordings
  /\ IF isRecording THEN isRecording' = FALSE /\ UNCHANGED epoch
     ELSE startRecording
  /\ UNCHANGED <<testType, previousTestType, poseResult, movementHistory,
                 isPlaying, pending, tags, calls, angleFrames, frames, runs>>
  /\ UNCHANGED <<filterVars, stabilityVars, scoreVars, otherVars>>

\* the state at mount: both effects of the first commit are still to run
InitHooks ==
  /\ testType = "standingHipFlex"
  /\ previousTestType = <<>>
  /\ poseResult = <<>>
  /\ movementHistory = <<>>
  /\ isPlaying = FALSE
  /\ isRecording = FALSE
  /\ pending = [metrics |-> "changed", videoSwitch |-> "afterMetrics",
                autoRecord |-> TRUE]
  /\ epoch = [type |-> 0, recording |-> 0]
  /\ tags = <<>>
  /\ calls = 0
  /\ angleFrames = {}
  /\ frames = 0
  /\ runs = 0

NextHooks ==
  \/ \E kind \in PoseKinds : setResult(kind)
  \/ \E t \in TestTypes : setTestType(t)
  \/ MetricsEffect
  \/ VideoSwitchEffect
  \/ \E playing \in BOOLEAN : setIsPlaying(playing)
  \/ AutoRecordEffect
  \/ toggleRecording

(***************************************************************************)
(* The exported functions of geometryUtils called in any order by a caller *)
(* that filters up to MaxFiltered angles and adds up to MaxPoints data     *)
(* points between two resets.                                              *)
(***************************************************************************)
MaxFiltered == 2
MaxPoints == 1

\* variant of resetAngleFilter that resets the filter only
resetAngleFilter_filterOnly ==
  /\ history' = <<>>
  /\ out' = <<>>
  /\ fed' = <<>>
  /\ discarded' = Len(history)
  /\ UNCHANGED stabilityVars
  /\ UNCHANGED <<scoreVars, hookVars, otherVars>>

\* lines 182-185: angleFilter.reset(); dynamicStabilityAnalyzer.reset()
resetAngleFilter ==
  /\ history' = <<>>
  /\ out' = <<>>
  /\ fed' = <<>>
  /\ discarded' = Len(history)
  /\ lumbarHistory' = <<>>
  /\ hipHistory' = <<>>
  /\ timeHistory' = <<>>
  /\ result' = <<>>
  /\ added' = <<>>
  /\ cleared' = (Len(lumbarHistory) > 0)
  /\ UNCHANGED script
  /\ UNCHANGED <<scoreVars, hookVars, otherVars>>

\* lines 148-177: the filter applied to the raw angle
calculateFilteredLumbarAngle(rawAngle) ==
  /\ Len(fed) < MaxFiltered
  /\ AngleFilter_filter(rawAngle)

\* lines 394-400
addStabilityDataPoint(lumbarAngle, hipAngle, timestamp) ==
  /\ Len(added) < MaxPoints
  /\ addDataPoint(lumbarAngle, hipAngle, timestamp)
  /\ UNCHANGED script
  /\ UNCHANGED <<scoreVars, hookVars, otherVars>>

NextReset ==
  \/ \E rawAngle \in Samples : calculateFilteredLumbarAngle(rawAngle)
  \/ \E a \in FreeAngles :
       addStabilityDataPoint(a[1], a[2], FrameMs * Len(added))
  \/ Analyze
  \/ resetAngleFilter

(***************************************************************************)
(* calculateLumbarFlexionExtension, from the signed trunk angle in degrees *)
(* that radToDeg(Math.atan2(...)) yields: flexion holds the angle of one   *)
(* trial and the value returned for it.                                    *)
(***************************************************************************)
MaxEighths == 16
MaxFives == 36

\* trunk angles in eighths of a degree around the deadband and in steps of
\* five degrees over the range of atan2
RawAngles ==
  {FDec(k, 8) : k \in -MaxEighths..MaxEighths}
  \cup {FInt(5 * k) : k \in -MaxFives..MaxFives}

\* variant of calculateLumbarFlexionExtension that scales before the deadband
calculateLumbarFlexionExtension_scaleFirst(lumbarAngle) ==
  LET scaled == IF FGt(lumbarAngle, F0) THEN FMul(lumbarAngle, F0_8)
                ELSE FMul(lumbarAngle, F1)
      quiet == IF FLt(FAbs(scaled), F1) THEN F0 ELSE scaled
  IN  FMax(FInt(-40), FMin(F60, quiet))

\* lines 81-96, lumbarAngle being the angle in degrees of line 76
calculateLumbarFlexionExtension(lumbarAngle) ==
  LET quiet == IF FLt(FAbs(lumbarAngle), F1) THEN F0 ELSE lumbarAngle
      scaled == IF FGt(quiet, F0) THEN FMul(quiet, F0_8)
                ELSE FMul(quiet, F1)
  IN  FMax(FInt(-40), FMin(F60, scaled))

FlexionTrial(a) ==
  /\ flexion = <<>>
  /\ flexion' = <<[raw |-> a, value |-> calculateLumbarFlexionExtension(a)]>>
  /\ UNCHANGED <<filterVars, stabilityVars, scoreVars, hookVars>>
  /\ UNCHANGED <<seriesVars, landmarkerVars>>

InitAngle == flexion = <<>>

NextAngle == \E a \in RawAngles : FlexionTrial(a)

(***************************************************************************)
(* useTimeSeriesData.  timeSeriesData is the state of the hook, startTime  *)
(* being <<>> for null; now is the clock Date.now() reads, which advances  *)
(* with every reading; starts counts the recordings started.  The four     *)
(* operations are given as the state update they pass to setTimeSeriesData.*)
(***************************************************************************)
maxDataPoints == 300

MaxStarts == 2
MaxClock == 303
MaxEarly == 2

\* excessive movements on both sides of the status thresholds 8 and 15
Movements == {FInt(3), FInt(8), FInt(15)}

TimeSeries_initial ==
  [data |-> <<>>, startTime |-> <<>>, isRecording |-> FALSE, duration |-> F0]

TimeSeries_startRecording(prev, clock) ==
  [prev EXCEPT !.startTime = <<clock>>, !.isRecording = TRUE,
               !.data = <<>>, !.duration = F0]

TimeSeries_stopRecording(prev) == [prev EXCEPT !.isRecording = FALSE]

TimeSeries_status(excessiveMovement) ==
  IF FGe(excessiveMovement, FInt(15)) THEN "abnormal"
  ELSE IF FGe(excessiveMovement, FInt(8)) THEN "caution"
  ELSE "normal"

\* the data point lines 60-77 build at time clock
TimeSeries_newDataPoint(prev, excessiveMovement, clock) ==
  [timestamp |-> clock,
   time |-> FDiv(FInt(clock - prev.startTime[1]), FInt(1000)),
   lumbarAngle |-> excessiveMovement,
   status |-> TimeSeries_status(excessiveMovement)]

\* variant of TimeSeries_addDataPoint that records whether recording or not
TimeSeries_addDataPoint_always(prev, excessiveMovement, clock) ==
  IF prev.startTime = <<>> THEN prev
  ELSE \* the same update without the test of isRecording
       LET newDataPoint ==
             TimeSeries_newDataPoint(prev, excessiveMovement, clock)
           updatedData == Append(prev.data, newDataPoint)
       IN  [prev EXCEPT
              !.data = IF Len(updatedData) > maxDataPoints
                       THEN Tail(updatedData) ELSE updatedData,
              !.duration = newDataPoint.time]

TimeSeries_addDataPoint(prev, excessiveMovement, clock) ==
  IF ~prev.isRecording \/ prev.startTime = <<>> THEN prev
  ELSE LET newDataPoint ==
             TimeSeries_newDataPoint(prev, excessiveMovement, clock)
           updatedData == Append(prev.data, newDataPoint)
       IN  [prev EXCEPT
              !.data = IF Len(updatedData) > maxDataPoints
                       THEN Tail(updatedData) ELSE updatedData,
              !.duration = newDataPoint.time]

TimeSeries_clearData == TimeSeries_initial

\* startRecording reads the clock
SeriesStart ==
  /\ starts < MaxStarts
  /\ now < MaxClock
  /\ timeSeriesData' = TimeSeries_startRecording(timeSeriesData, now)
  /\ now' = now + 1
  /\ starts' = starts + 1

SeriesStop ==
  /\ timeSeriesData' = TimeSeries_stopRecording(timeSeriesData)
  /\ UNCHANGED <<now, starts>>

\* addDataPoint reads the clock only when it records
SeriesAdd(excessiveMovement) ==
  /\ now < MaxClock
  /\ timeSeriesData' =
       TimeSeries_addDataPoint(timeSeriesData, excessiveMovement, now)
  /\ now' = IF timeSeriesData' = timeSeriesData THEN now ELSE now + 1
  /\ UNCHANGED starts

SeriesClear ==
  /\ timeSeriesData' = TimeSeries_clearData
  /\ UNCHANGED <<now, starts>>

UnchangedBySeries ==
  /\ UNCHANGED <<filterVars, stabilityVars, scoreVars, hookVars>>
  /\ UNCHANGED <<angleVars, landmarkerVars>>

\* the hook called by a caller that varies the excessive movement of the
\* first point of a recording, and starts a recording or clears
\* the data when the data holds at most MaxEarly points or is full
EarlyOrFull ==
  \/ Len(timeSeriesData.data) <= MaxEarly
  \/ Len(timeSeriesData.data) = maxDataPoints

startRecordingCall ==
  /\ EarlyOrFull
  /\ SeriesStart
  /\ UNCHANGED <<metrics, recordPending>>
  /\ UnchangedBySeries

stopRecordingCall ==
  SeriesStop /\ UNCHANGED <<metrics, recordPending>> /\ UnchangedBySeries

addDataPointCall ==
  /\ \E x \in IF timeSeriesData.data = <<>>
              THEN Movements ELSE {FInt(3)} : SeriesAdd(x)
  /\ UNCHANGED <<metrics, recordPending>>
  /\ UnchangedBySeries

clearDataCall ==
  /\ EarlyOrFull
  /\ SeriesClear
  /\ UNCHANGED <<metrics, recordPending>>
  /\ UnchangedBySeries

NextSeries ==
  \/ startRecordingCall
  \/ stopRecordingCall
  \/ addDataPointCall
  \/ clearDataCall

(***************************************************************************)
(* The hook as NewLumbarMotorControlApp uses it: metrics is the list       *)
(* useMetrics returned last, a set of labelled values; recordPending tells *)
(* that a dependency of the recording effect (lines 456-462) has changed.  *)
(* The labels stand for the Japanese labels of the source:                 *)
(*   "lumbar stability score"                 line 291                     *)
(*   "lumbar excessive movement"              line 310                     *)
(*   "lumbar flexion/extension angle"         line 333                     *)
(*   "hip flexion angle"                      line 450                     *)
(*   "hip-knee angle"                         line 494                     *)
(*   "lumbar alignment"                       line 540                     *)
(*   "overall score"                          line 160                     *)
(*   "thoracolumbar flexion/extension angle"  the label the app looks up,  *)
(*                                            which has one more leading   *)
(*                                            character than line 333      *)
(***************************************************************************)
MaxRecorded == 4

\* values of the lumbar angle metric: 0 while waiting for a pose, and on
\* both sides of the status thresholds 15 and 30
MetricAngles == {F0, FInt(3), FInt(-12), FInt(20), FInt(31)}

\* the label of the angle metric useMetrics emits (line 333)
emittedAngleLabel == "lumbar flexion/extension angle"

\* the metrics useMetrics computes for a test type from a result with
\* visible shoulders and hips and the lumbar angle given
useMetrics_metrics(t, lumbarAngle) ==
  {[label |-> "lumbar stability score", value |-> F50],
   [label |-> "lumbar excessive movement", value |-> F0],
   [label |-> "overall score", value |-> F50]}
  \cup (IF t = "seatedKneeExt"
        THEN {[label |-> "lumbar alignment", value |-> F0]}
        ELSE {[label |-> emittedAngleLabel, value |-> lumbarAngle]})
  \cup (IF t = "standingHipFlex"
        THEN {[label |-> "hip flexion angle", value |-> F0]}
        ELSE IF t = "rockBack"
        THEN {[label |-> "hip-knee angle", value |-> F0]}
        ELSE {})

\* metrics.find(m => m.label === label), <<>> for undefined
find(list, label) ==
  IF \E m \in list : m.label = label
  THEN <<CHOOSE m \in list : m.label = label>>
  ELSE <<>>

\* variant of lookedUpLabel: the label of line 333
lookedUpLabel_emitted == "lumbar flexion/extension angle"

\* the label of line 458
lookedUpLabel == "thoracolumbar flexion/extension angle"

setMetrics(list) ==
  /\ list # metrics
  /\ metrics' = list
  /\ recordPending' = TRUE
  /\ UNCHANGED <<timeSeriesData, now, starts>>
  /\ UnchangedBySeries

\* lines 456-462
RecordingEffect ==
  /\ recordPending
  /\ recordPending' = FALSE
  /\ LET lumbarAngleMetric == find(metrics, lookedUpLabel)
     IN  IF lumbarAngleMetric # <<>> /\ timeSeriesData.isRecording
         THEN SeriesAdd(lumbarAngleMetric[1].value)
         ELSE UNCHANGED <<timeSeriesData, now, starts>>
  /\ UNCHANGED metrics
  /\ UnchangedBySeries

\* toggleRecording or the auto recording effect starts or stops recording
RecordingStarts ==
  /\ ~recordPending
  /\ ~timeSeriesData.isRecording
  /\ SeriesStart
  /\ recordPending' = TRUE
  /\ UNCHANGED metrics
  /\ UnchangedBySeries

RecordingStops ==
  /\ ~recordPending
  /\ timeSeriesData.isRecording
  /\ SeriesStop
  /\ recordPending' = TRUE
  /\ UNCHANGED metrics
  /\ UnchangedBySeries

NextRecord ==
  \/ \E t \in TestTypes : \E a \in MetricAngles :
       /\ ~recordPending
       /\ now < MaxRecorded
       /\ setMetrics(useMetrics_metrics(t, a))
  \/ RecordingEffect
  \/ RecordingStarts
  \/ RecordingStops

InitSeries ==
  /\ timeSeriesData = TimeSeries_initial
  /\ now = 0
  /\ starts = 0
  /\ metrics = {}
  /\ recordPending = TRUE

(***************************************************************************)
(* initializePoseLandmarker of usePoseLandmarker.  attempt is the place    *)
(* the async function has reached: awaiting the WASM files ("wasm"),       *)
(* awaiting createFromOptions for modelUrls[url] ("model"), awaiting the   *)
(* timer before the next attempt ("wait"), or returned ("done").  tried    *)
(* lists the model loads that have settled; landmarkerRef is <<>> for      *)
(* null; unmounted tells that the cleanup of the effect has run, closed    *)
(* that it has closed a landmarker.                                        *)
(***************************************************************************)
maxRetries == 3

modelUrls == <<"storage.googleapis.com", "cdn.jsdelivr.net">>

\* variant of retriesExhausted that gives up after the first failure
retriesExhausted_first(count) == count >= 1

\* line 86
retriesExhausted(count) == count >= maxRetries

\* lines 81-93: the catch block, for an error with the given message
catchError(errorMsg) ==
  /\ retryCount' = retryCount + 1
  /\ IF retriesExhausted(retryCount')
     THEN /\ error' = <<errorMsg>>
          /\ attempt' = [pc |-> "done", url |-> 0]
     ELSE /\ UNCHANGED error
          /\ attempt' = [pc |-> "wait", url |-> 0]
  /\ UNCHANGED <<isLandmarkerReady, landmarkerRef>>

UnchangedByLandmarker ==
  /\ UNCHANGED <<filterVars, stabilityVars, scoreVars, hookVars>>
  /\ UNCHANGED <<angleVars, seriesVars>>

\* lines 29-32: FilesetResolver.forVisionTasks resolves or rejects
WasmSettles(resolved) ==
  /\ attempt.pc = "wasm"
  /\ IF resolved
     THEN /\ attempt' = [pc |-> "model", url |-> 1]
          /\ UNCHANGED <<retryCount, isLandmarkerReady, error, landmarkerRef>>
     ELSE catchError("wasm")
  /\ UNCHANGED <<tried, unmounted, closed>>
  /\ UnchangedByLandmarker

\* lines 46-79: createFromOptions for the current URL resolves or rejects
ModelSettles(resolved) ==
  /\ attempt.pc = "model"
  /\ tried' = Append(tried, [retry |-> retryCount, url |-> attempt.url,
                             loaded |-> resolved])
  /\ IF resolved
     THEN /\ landmarkerRef' = <<modelUrls[attempt.url]>>
          /\ isLandmarkerReady' = TRUE
          /\ attempt' = [pc |-> "done", url |-> 0]
          /\ UNCHANGED <<retryCount, error>>
     ELSE IF attempt.url < Len(modelUrls)
     THEN /\ attempt' = [attempt EXCEPT !.url = @ + 1]
          /\ UNCHANGED <<retryCount, isLandmarkerReady, error, landmarkerRef>>
     ELSE catchError("models")
  /\ UNCHANGED <<unmounted, closed>>
  /\ UnchangedByLandmarker

\* line 92: the timer before the next attempt fires
TimerFires ==
  /\ attempt.pc = "wait"
  /\ attempt' = [pc |-> "wasm", url |-> 0]
  /\ UNCHANGED <<retryCount, isLandmarkerReady, error, tried, landmarkerRef,
                 unmounted, closed>>
  /\ UnchangedByLandmarker

\* lines 100-107: the cleanup of the effect closes the landmarker it finds
Cleanup ==
  /\ ~unmounted
  /\ unmounted' = TRUE
  /\ closed' = (landmarkerRef # <<>>)
  /\ UNCHANGED <<attempt, retryCount, isLandmarkerReady, error, tried,
                 landmarkerRef>>
  /\ UnchangedByLandmarker

Settles ==
  \/ \E resolved \in BOOLEAN : WasmSettles(resolved)
  \/ \E resolved \in BOOLEAN : ModelSettles(resolved)
  \/ TimerFires

NextLandmarker == Settles \/ Cleanup

InitLandmarker ==
  /\ attempt = [pc |-> "wasm", url |-> 0]
  /\ retryCount = 0
  /\ isLandmarkerReady = FALSE
  /\ error = <<>>
  /\ tried = <<>>
  /\ landmarkerRef = <<>>
  /\ unmounted = FALSE
  /\ closed = FALSE

Init ==
  /\ InitFilter
  /\ InitStability
  /\ InitScore
  /\ InitHooks
  /\ InitAngle
  /\ InitSeries
  /\ InitLandmarker

SpecFilter == Init /\ [][NextFilter]_vars

SpecStability == Init /\ [][NextStability]_vars

SpecScore == Init /\ [][NextScore]_vars

SpecHooks == Init /\ [][NextHooks]_vars

SpecAngle == Init /\ [][NextAngle]_vars

SpecReset == Init /\ [][NextReset]_vars

SpecSeries == Init /\ [][NextSeries]_vars

SpecRecord == Init /\ [][NextRecord]_vars

\* every awaited promise and timer settles
SpecLandmarker == Init /\ [][NextLandmarker]_vars /\ WF_vars(Settles)

(***************************************************************************)
(* Claims about AngleFilter, checked under SpecFilter.                     *)
(***************************************************************************)
\* C1: the buffer never holds more than 3 samples and is exactly the last
\* min(k,3) values passed to filter since the most recent reset, in arrival
\* order (k = number of filter calls since that reset).
C1_BufferIsLastThree ==
  /\ Len(history) <= 3
  /\ Len(history) = (IF Len(fed) < 3 THEN Len(fed) ELSE 3)
  /\ \A i \in 1..Len(history) :
       history[i] = fed[Len(fed) - Len(history) + i]

\* a fourth sample arrived after a reset and pushed the first one out
C1_Witness ==
  /\ discarded > 0
  /\ Len(fed) >= 4
  /\ fed[Len(fed) - 3] # fed[Len(fed) - 2]
  /\ history = SubSeq(fed, Len(fed) - 2, Len(fed))

\* C2: the value filter returns is the fixed-weight combination of the
\* buffer after the sample is appended: the sample itself for 1 element,
\* 0.3*older + 0.7*newest for 2, 0.2*oldest + 0.3*middle + 0.5*newest for 3;
\* the weights sum to 1 and the newest sample has the largest weight.
C2_WeightedCombination ==
  /\ Len(out) = 1 =>
       /\ Len(history) \in 1..3
       /\ Len(history) = 1 => out[1] = history[1]
       /\ Len(history) = 2 =>
            out[1] = FAdd(FMul(F0_3, history[1]),
                          FMul(F0_7, history[2]))
       /\ Len(history) = 3 =>
            out[1] = FAdd(FAdd(FMul(F0_2, history[1]),
                               FMul(F0_3, history[2])),
                          FMul(F0_5, history[3]))
  /\ \A n \in 1..3 :
       LET w == AngleFilter_weights(n)
       IN  /\ Len(w) = n
           /\ (IF n = 1 THEN w[1]
               ELSE IF n = 2 THEN FAdd(w[1], w[2])
               ELSE FAdd(FAdd(w[1], w[2]), w[3])) = F1
           /\ \A i \in 1..(n - 1) : FLt(w[i], w[n])

\* filter returned the combination of three different buffered samples
C2_Witness ==
  /\ Len(out) = 1
  /\ Len(history) = 3
  /\ history[1] # history[2]
  /\ history[2] # history[3]
  /\ history[1] # history[3]
  /\ out[1] # history[3]

\* C3: reset followed immediately by filter(x) returns exactly x, and so
\* does the first call on an empty buffer: nothing from before the reset
\* contributes.
C3_ResetThenFilter == Len(fed) = 1 => out = <<fed[1]>>

\* a reset threw three samples away and the next filter call returned its
\* own argument, which differs from the discarded ones' average
C3_Witness ==
  /\ discarded = 3
  /\ Len(fed) = 1
  /\ out = <<fed[1]>>
  /\ fed[1] # F0

\* the last three samples passed to filter are the same value
C4_ThreeEqual ==
  /\ Len(fed) >= 3
  /\ fed[Len(fed)] = fed[Len(fed) - 1]
  /\ fed[Len(fed)] = fed[Len(fed) - 2]

\* C4 as stated: from the third of N >= 3 consecutive calls with the same
\* value c on, the output is exactly c.
C4_ExactlyConstant == C4_ThreeEqual => out = <<fed[Len(fed)]>>

\* C4 (amended): from the third of N >= 3 consecutive calls with the same
\* value c on, the output is 0.2*c + 0.3*c + 0.5*c in binary64 arithmetic,
\* which is c up to rounding: |output - c| <= 2^-51 * |c|, whatever was in
\* the buffer before.
C4_ConstantUpToRounding ==
  C4_ThreeEqual =>
    /\ Len(out) = 1
    /\ LET c == fed[Len(fed)]
       IN  /\ out[1] = FAdd(FAdd(FMul(F0_2, c), FMul(F0_3, c)),
                            FMul(F0_5, c))
           /\ FLe(FAbs(FSub(out[1], c)), FScale2(FAbs(c), -51))

\* a different sample, then the same non-zero value three times
C4_Witness ==
  /\ Len(fed) >= 4
  /\ C4_ThreeEqual
  /\ fed[Len(fed) - 3] # fed[Len(fed)]
  /\ fed[Len(fed)] # F0

(***************************************************************************)
(* Claims about DynamicStabilityAnalyzer, checked under SpecStability.     *)
(***************************************************************************)
\* C5: after any sequence of addDataPoint and reset calls the three
\* histories have the same length, at most 150, and hold, index-aligned and
\* in arrival order, the last min(k,150) triples added since the most recent
\* reset.
C5_HistoriesAreLast150 ==
  /\ Len(lumbarHistory) = Len(hipHistory)
  /\ Len(hipHistory) = Len(timeHistory)
  /\ Len(lumbarHistory) <= 150
  /\ Len(lumbarHistory) = (IF Len(added) < 150 THEN Len(added) ELSE 150)
  /\ \A i \in 1..Len(lumbarHistory) :
       added[Len(added) - Len(lumbarHistory) + i] =
         <<lumbarHistory[i], hipHistory[i], timeHistory[i]>>

\* after a reset more than 150 triples arrived and the oldest were evicted
C5_Witness ==
  /\ cleared
  /\ Len(added) > 150
  /\ Len(timeHistory) = 150
  /\ timeHistory[1] = FrameMs * (Len(added) - 150)
  /\ timeHistory[1] # added[1][3]

\* the largest minus the smallest of the elements start..end (0-based, both
\* included) of h
C6_Range(h, start, end) ==
  LET S == {h[i + 1] : i \in start..end}
  IN  FSub(CHOOSE x \in S : \A y \in S : FLe(y, x),
           CHOOSE x \in S : \A y \in S : FLe(x, y))

\* the sum of C6_Range over the first k phases
RECURSIVE C6_Sum(_, _, _)
C6_Sum(h, phases, k) ==
  IF k = 0 THEN F0
  ELSE FAdd(C6_Sum(h, phases, k - 1),
            C6_Range(h, phases[k].start, phases[k].end))

\* the three formulas of C6 for the result r and the two sums
C6_Formulas(r, sumLumbarRange, sumHipRange) ==
  /\ r.hipLumbarRatio =
       (IF sumHipRange = F0 THEN F0 ELSE FDiv(sumLumbarRange, sumHipRange))
  /\ r.lumbarStabilityScore =
       FMax(F0, FSub(F100, FMul(F100, r.hipLumbarRatio)))
  /\ r.lumbarExcessiveMovement =
       FMax(F0, FSub(sumLumbarRange, FMul(F0_3, sumHipRange)))

\* C6: with at least 10 samples, hipLumbarRatio = SumLumbarRange /
\* SumHipRange (0 when SumHipRange is 0), lumbarStabilityScore = max(0, 100 -
\* 100 * ratio) and lumbarExcessiveMovement = max(0, SumLumbarRange - 0.3 *
\* SumHipRange), the sums taken over the retained phases and each range being
\* max minus min of the history over the inclusive interval [start, end].
C6_PhaseFormulas ==
  (Len(result) = 1 /\ Len(hipHistory) >= 10) =>
    /\ \A k \in 1..Len(result[1].hipMovementPhases) :
         result[1].hipMovementPhases[k].hipRange =
           C6_Range(hipHistory, result[1].hipMovementPhases[k].start,
                    result[1].hipMovementPhases[k].end)
    /\ C6_Formulas(result[1],
                   C6_Sum(lumbarHistory, result[1].hipMovementPhases,
                          Len(result[1].hipMovementPhases)),
                   C6_Sum(hipHistory, result[1].hipMovementPhases,
                          Len(result[1].hipMovementPhases)))

\* an analysis of two or more retained phases with a ratio strictly between
\* 0 and 1 and some excessive lumbar movement
C6_Witness ==
  /\ Len(result) = 1
  /\ Len(hipHistory) >= 10
  /\ Len(result[1].hipMovementPhases) >= 2
  /\ FGt(result[1].hipLumbarRatio, F0)
  /\ FLt(result[1].hipLumbarRatio, F1)
  /\ FGt(result[1].lumbarExcessiveMovement, F0)

\* C7: for every result, also with fewer than 10 samples, stabilityGrade is
\* 'excellent' when the score is >= 80, 'good' when 60 <= score < 80, 'fair'
\* when 40 <= score < 60 and 'poor' when score < 40.
C7_GradeMatchesScore ==
  Len(result) = 1 =>
    result[1].stabilityGrade =
      (IF FGe(result[1].lumbarStabilityScore, F80) THEN "excellent"
       ELSE IF FGe(result[1].lumbarStabilityScore, F60) THEN "good"
       ELSE IF FGe(result[1].lumbarStabilityScore, F40) THEN "fair"
       ELSE "poor")

\* C8: for every result 0 <= lumbarStabilityScore <= 100, hipLumbarRatio >= 0
\* and lumbarExcessiveMovement >= 0.
C8_ResultRanges ==
  Len(result) = 1 =>
    /\ FGe(result[1].lumbarStabilityScore, F0)
    /\ FLe(result[1].lumbarStabilityScore, F100)
    /\ FGe(result[1].hipLumbarRatio, F0)
    /\ FGe(result[1].lumbarExcessiveMovement, F0)

\* the lumbar spine moved more than the hip: the score is held at 0
C8_Witness ==
  /\ Len(result) = 1
  /\ FGt(result[1].hipLumbarRatio, F1)
  /\ result[1].lumbarStabilityScore = F0
  /\ FGt(result[1].lumbarExcessiveMovement, F0)

\* the absolute difference of the last and the first element of h
C9_Delta(h) == FAbs(FSub(h[Len(h)], h[1]))

\* C9: with 1 to 9 samples the result has no phases, hipLumbarRatio =
\* |last lumbar - first lumbar| / |last hip - first hip| (0 when the hip
\* difference is 0) and lumbarStabilityScore = max(0, 100 - 100 * ratio).
C9_ShortHistory ==
  (Len(result) = 1 /\ Len(hipHistory) \in 1..9) =>
    /\ result[1].hipMovementPhases = <<>>
    /\ result[1].hipLumbarRatio =
         (IF C9_Delta(hipHistory) = F0 THEN F0
          ELSE FDiv(C9_Delta(lumbarHistory), C9_Delta(hipHistory)))
    /\ result[1].lumbarStabilityScore =
         FMax(F0, FSub(F100, FMul(F100, result[1].hipLumbarRatio)))

\* an analysis of fewer than 10 samples in which both angles changed, the
\* lumbar angle by less than the hip angle
C9_Witness ==
  /\ Len(result) = 1
  /\ Len(hipHistory) \in 2..9
  /\ FGt(result[1].hipLumbarRatio, F0)
  /\ FLt(result[1].hipLumbarRatio, F1)
  /\ FLt(result[1].lumbarStabilityScore, F100)

\* C10: with fewer than 10 samples and no motion (the history is empty, or
\* its first and last hip values are equal and its first and last lumbar
\* values are equal) the grade is 'fair'.
C10_NoMotionIsFair ==
  (/\ Len(result) = 1
   /\ Len(hipHistory) < 10
   /\ \/ Len(hipHistory) = 0
      \/ /\ hipHistory[1] = hipHistory[Len(hipHistory)]
         /\ lumbarHistory[1] = lumbarHistory[Len(lumbarHistory)])
  => result[1].stabilityGrade = "fair"

(***************************************************************************)
(* Claims about phase detection, checked under SpecStability.              *)
(***************************************************************************)
\* the class of the frame-to-frame hip change at 0-based index i: 2 above
\* 5 degrees, 0 below 2.5 degrees, 1 from 2.5 to 5 inclusive
Hip_Class(hip, i) ==
  IF FGt(FAbs(FSub(hip[i + 1], hip[i])), F5) THEN 2
  ELSE IF FLt(FAbs(FSub(hip[i + 1], hip[i])), F2_5) THEN 0
  ELSE 1

\* the classes of all changes of hip, by 0-based index 1..n-1
Hip_Classes(hip) == [i \in 1..(Len(hip) - 1) |-> Hip_Class(hip, i)]

\* in movement once index i is scanned: the most recent change outside
\* [2.5, 5] among indices 1..i was above 5
Hip_InMovement(cls, i) ==
  \E s \in 1..i : cls[s] = 2 /\ \A k \in (s + 1)..i : cls[k] # 0

\* a phase starts at index s
Hip_StartsAt(cls, s) == cls[s] = 2 /\ ~Hip_InMovement(cls, s - 1)

\* the phase in progress after index s ends at index j
Hip_EndsAt(cls, s, j) == cls[j] = 0 /\ \A k \in (s + 1)..(j - 1) : cls[k] # 0

\* the returned phases start and end as C11 says, for the classes cls of a
\* history of n samples
C11_Phases(phases, cls, n) ==
  /\ \A q \in 1..Len(phases) :
       /\ phases[q].start \in 1..(n - 1)
       /\ phases[q].end \in (phases[q].start + 1)..(n - 1)
       /\ Hip_StartsAt(cls, phases[q].start)
       /\ \/ Hip_EndsAt(cls, phases[q].start, phases[q].end)
          \/ /\ phases[q].end = n - 1
             /\ \A k \in (phases[q].start + 1)..(n - 1) : cls[k] # 0
       /\ q > 1 => phases[q - 1].end < phases[q].start
  /\ \A s \in 1..(n - 1) :
       Hip_StartsAt(cls, s) =>
         \A j \in (s + 15)..(n - 1) :
           Hip_EndsAt(cls, s, j) =>
             \E q \in 1..Len(phases) :
               phases[q].start = s /\ phases[q].end = j

\* C11: phase detection scans the hip history in index order as a two-state
\* machine: idle, a phase starts at the first index whose change exceeds 5;
\* in movement, it ends at the first later index whose change is below 2.5;
\* changes from 2.5 to 5 inclusive neither start nor end a phase.  Every
\* returned phase is such a span, and every such span of at least 15 frames
\* is returned.
C11_TwoStateScan ==
  (Len(result) = 1 /\ Len(hipHistory) >= 10) =>
    \A cls \in {Hip_Classes(hipHistory)} :
      C11_Phases(result[1].hipMovementPhases, cls, Len(hipHistory))

\* the mixed history: changes of exactly 5 and 2.5 before index 4 start
\* nothing, the phase from 4 runs through changes of 2.5..5 to index 20, a
\* 2-frame movement from 23 is dropped, the phase from 27 is still open
C11_Witness ==
  /\ Len(result) = 1
  /\ script = 7
  /\ Len(hipHistory) = Len(MixedHip)
  /\ Len(result[1].hipMovementPhases) = 2
  /\ result[1].hipMovementPhases[1].start = 4
  /\ result[1].hipMovementPhases[1].end = 20
  /\ result[1].hipMovementPhases[2].start = 27
  /\ Hip_Class(hipHistory, 2) = 1
  /\ Hip_Class(hipHistory, 8) = 1

\* hip is flat up to index a - 1, changes by more than 5 degrees per frame
\* at the len indices a..a+len-1, and is flat from there to its end, with at
\* least one flat frame on each side
Hip_SingleRamp(hip, cls, a, len) ==
  /\ a >= 2
  /\ a + len <= Len(hip) - 1
  /\ \A i \in 1..(a - 1) : hip[i + 1] = hip[i]
  /\ \A i \in a..(a + len - 1) : cls[i] = 2
  /\ \A i \in (a + len)..(Len(hip) - 1) : hip[i + 1] = hip[i]

\* C12: for a hip history that is flat, then changes by more than 5 degrees
\* per frame for 20 consecutive frames, then is flat again (length >= 10,
\* within the window), the analysis returns exactly one phase, whose span
\* [start, end] begins at the first ramp frame and reaches the last one.
C12_SingleRampOnePhase ==
  (Len(result) = 1 /\ Len(hipHistory) >= 10) =>
    \A cls \in {Hip_Classes(hipHistory)} :
      \A a \in 2..(Len(hipHistory) - 21) :
        Hip_SingleRamp(hipHistory, cls, a, 20) =>
          /\ Len(result[1].hipMovementPhases) = 1
          /\ result[1].hipMovementPhases[1].start = a
          /\ result[1].hipMovementPhases[1].end >= a + 19
          /\ result[1].hipMovementPhases[1].end <= Len(hipHistory) - 1

\* an analysis of such a history: 4 flat frames, a 20-frame ramp of 6
\* degrees per frame, and flat frames after it
C12_Witness ==
  /\ Len(result) = 1
  /\ Len(hipHistory) >= 10
  /\ Hip_SingleRamp(hipHistory, Hip_Classes(hipHistory), 4, 20)
  /\ Len(result[1].hipMovementPhases) = 1
  /\ result[1].hipMovementPhases[1].hipRange = FInt(19 * HipStep)

\* every frame of hip is flat or changes by more than 5 degrees, and every
\* run of fast changes is exactly len frames long and followed by a flat frame
Hip_OnlyRampsOf(hip, cls, len) ==
  \A i \in 1..(Len(hip) - 1) :
    /\ hip[i + 1] = hip[i] \/ cls[i] = 2
    /\ (cls[i] = 2 /\ (i = 1 \/ cls[i - 1] # 2)) =>
         /\ i + len <= Len(hip) - 1
         /\ \A k \in i..(i + len - 1) : cls[k] = 2
         /\ hip[i + len + 1] = hip[i + len]

\* C13: for a hip history (length >= 10) whose only movement consists of
\* ramps of 5 consecutive frames changing by more than 5 degrees per frame,
\* each followed by at least one flat frame, the analysis returns no phase.
C13_ShortRampsNoPhase ==
  (Len(result) = 1 /\ Len(hipHistory) >= 10) =>
    \A cls \in {Hip_Classes(hipHistory)} :
      Hip_OnlyRampsOf(hipHistory, cls, 5) =>
        result[1].hipMovementPhases = <<>>

\* an analysis of a history with at least three complete 5-frame ramps
C13_Witness ==
  /\ Len(result) = 1
  /\ Len(hipHistory) >= 22
  /\ Hip_OnlyRampsOf(hipHistory, Hip_Classes(hipHistory), 5)
  /\ Hip_Class(hipHistory, 3) = 2
  /\ Hip_Class(hipHistory, 9) = 2
  /\ Hip_Class(hipHistory, 16) = 2
  /\ result[1].hipMovementPhases = <<>>

\* the scan of a history of n samples ends in movement, in a phase that
\* started at index s
Hip_OpenFrom(cls, n, s) ==
  /\ Hip_StartsAt(cls, s)
  /\ \A k \in (s + 1)..(n - 1) : cls[k] # 0

\* what C14 says of the phase open from s at the end of a history of n
\* samples
C14_Open(phases, n, s) ==
  IF n - s >= 15
  THEN /\ Len(phases) >= 1
       /\ phases[Len(phases)].start = s
       /\ phases[Len(phases)].end = n - 1
  ELSE \A q \in 1..Len(phases) : phases[q].end < s

\* C14: if the scan reaches the end of the hip history while a phase is in
\* movement, the phase is retained with end = last index when history length
\* - start >= 15, and dropped otherwise.
C14_OpenPhaseAtEnd ==
  (Len(result) = 1 /\ Len(hipHistory) >= 10) =>
    \A cls \in {Hip_Classes(hipHistory)} :
      \A s \in 1..(Len(hipHistory) - 1) :
        Hip_OpenFrom(cls, Len(hipHistory), s) =>
          C14_Open(result[1].hipMovementPhases, Len(hipHistory), s)

\* an analysis in the middle of a ramp, exactly 15 samples after it began:
\* the open phase is returned and ends at the last index
C14_Witness ==
  /\ Len(result) = 1
  /\ Len(hipHistory) >= 10
  /\ Len(result[1].hipMovementPhases) >= 1
  /\ Hip_Class(hipHistory, Len(hipHistory) - 1) = 2
  /\ result[1].hipMovementPhases[Len(result[1].hipMovementPhases)].end =
       Len(hipHistory) - 1
  /\ result[1].hipMovementPhases[Len(result[1].hipMovementPhases)].start =
       Len(hipHistory) - 15

\* an analysis in the middle of a ramp, 14 samples after it began: the open
\* phase is not returned
C14_WitnessDropped ==
  /\ Len(result) = 1
  /\ Len(hipHistory) >= 15
  /\ Hip_OpenFrom(Hip_Classes(hipHistory), Len(hipHistory),
                  Len(hipHistory) - 14)
  /\ result[1].hipMovementPhases = <<>>

(***************************************************************************)
(* Claims about the score, checked under SpecScore.                        *)
(***************************************************************************)
\* a trial with a positive hip total in which lumbarB is the larger total
C15_Larger ==
  /\ Len(trial) = 1
  /\ FGt(trial[1].hip, F0)
  /\ FLt(trial[1].lumbarA, trial[1].lumbarB)

\* the score is exactly 0 once the lumbar total reaches the hip total
C15_Clamped ==
  Len(trial) = 1 =>
    /\ FGe(trial[1].lumbarA, trial[1].hip) => trial[1].scoreA = F0
    /\ FGe(trial[1].lumbarB, trial[1].hip) => trial[1].scoreB = F0

\* C15 as stated: for the same positive SumHipRange a larger SumLumbarRange
\* gives a strictly smaller score as long as the smaller score is above 0,
\* and the score is exactly 0 once SumLumbarRange >= SumHipRange.
C15_StrictlyDecreasing ==
  /\ C15_Clamped
  /\ (C15_Larger /\ FGt(trial[1].scoreB, F0)) =>
       FLt(trial[1].scoreB, trial[1].scoreA)

\* C15 (amended): for the same positive SumHipRange a larger SumLumbarRange
\* never gives a larger score, gives a strictly smaller one when it is
\* larger by at least 2^-30 * SumHipRange and the smaller score is above 0,
\* and the score is exactly 0 once SumLumbarRange >= SumHipRange.
C15_NonIncreasing ==
  /\ C15_Clamped
  /\ C15_Larger => FLe(trial[1].scoreB, trial[1].scoreA)
  /\ (/\ C15_Larger
      /\ FGt(trial[1].scoreB, F0)
      /\ FGe(FSub(trial[1].lumbarB, trial[1].lumbarA),
             FScale2(trial[1].hip, -30)))
     => FLt(trial[1].scoreB, trial[1].scoreA)

\* two lumbar totals below the hip total: the larger one scores less, and
\* both scores are strictly between 0 and 100
C15_Witness ==
  /\ C15_Larger
  /\ FGt(trial[1].scoreB, F0)
  /\ FLt(trial[1].scoreB, trial[1].scoreA)
  /\ FLt(trial[1].scoreA, F100)

(***************************************************************************)
(* The end-to-end scenario, checked under SpecStability.                   *)
(***************************************************************************)
\* C16: after reset and 150 addDataPoint calls in which the hip angle is 0
\* for frames 0-9, rises linearly from 0 to 80 degrees over frames 10-40 and
\* stays at 80, while the lumbar angle rises from 0 to 40 degrees over the
\* same frames, the analysis returns hipLumbarRatio about 0.5 (here: within
\* 0.1), lumbarStabilityScore about 50 (within 10) and grade 'fair' or
\* 'poor'.
C16_SweepScenario ==
  (script = 5 /\ Len(added) = 150 /\ Len(result) = 1) =>
    /\ FGe(result[1].hipLumbarRatio, FDec(4, 10))
    /\ FLe(result[1].hipLumbarRatio, FDec(6, 10))
    /\ FGe(result[1].lumbarStabilityScore, F40)
    /\ FLe(result[1].lumbarStabilityScore, F60)
    /\ result[1].stabilityGrade \in {"fair", "poor"}

\* what the analysis returns in that scenario: no phase, ratio 0, score 100
C16_SweepObserved ==
  (script = 5 /\ Len(added) = 150 /\ Len(result) = 1) =>
    /\ result[1].hipMovementPhases = <<>>
    /\ result[1].hipLumbarRatio = F0
    /\ result[1].lumbarStabilityScore = F100
    /\ result[1].stabilityGrade = "excellent"

\* C17: a filtered angle produced after a test-type change is computed only
\* from samples taken after the change: once an effect run of the current
\* test type has passed an angle to the filter, every sample in the buffer
\* comes from a frame delivered under the current test type.
C17_NoSampleFromBeforeChange ==
  (tags # <<>> /\ tags[Len(tags)].type = epoch.type)
    => \A i \in 1..Len(tags) : tags[i].takenType = epoch.type

\* the part of C17 the code keeps: the samples in the buffer were all pushed
\* by effect runs of one test type, resetAngleFilter having emptied the
\* buffer before the first run of a new test type pushes
C17_ResetPrecedesFilter ==
  \A i \in 1..Len(tags) : tags[i].type = tags[Len(tags)].type

\* a frame of the new test type averaged with a frame taken before the change
C17_MixedBuffer ==
  /\ Len(tags) >= 2
  /\ tags[Len(tags)].takenType = epoch.type
  /\ tags[1].takenType < epoch.type
  /\ pending.videoSwitch = "idle"

\* C18: when a recording has begun, the first sample of that recording is
\* processed on an empty filter buffer and an empty stability history: while
\* recording, once a frame delivered during the recording has been filtered,
\* the buffer holds only frames delivered during that recording.
C18_NewRecordingStartsFresh ==
  (isRecording /\ tags # <<>>
     /\ tags[Len(tags)].takenRecording = epoch.recording)
    => \A i \in 1..Len(tags) : tags[i].takenRecording = epoch.recording

\* C19: the stability history holds one data point for every frame a lumbar
\* angle was computed for since the last reset, up to its cap.
C19_HistoryGrowsPerFrame ==
  Len(lumbarHistory) = IF Cardinality(angleFrames) < DSA_maxHistory
                       THEN Cardinality(angleFrames) ELSE DSA_maxHistory

\* C20: between two arrivals of a new result or a new test type the filter
\* is invoked at most once.
C20_FilterOncePerResult == calls <= 1

\* the effect ran twice on one result and the buffer holds its frame twice
C20_SameFrameTwice ==
  /\ calls = 2
  /\ Len(tags) >= 2
  /\ tags[Len(tags)].frame = tags[Len(tags) - 1].frame

\* C21: for a raw trunk angle a, calculateLumbarFlexionExtension returns 0
\* when |a| < 1, min(60, 0.8 * a) when a >= 1 and max(-40, a) when a <= -1,
\* and the result lies in [-40, 60].
C21_DeadbandScaleClamp ==
  flexion # <<>> =>
    LET a == flexion[1].raw
        v == flexion[1].value
    IN  /\ FLt(FAbs(a), F1) => v = F0
        /\ FGe(a, F1) => v = FMin(F60, FMul(F0_8, a))
        /\ FLe(a, FInt(-1)) => v = FMax(FInt(-40), a)
        /\ FGe(v, FInt(-40)) /\ FLe(v, F60)

\* 1.125 degrees is outside the deadband although 0.8 * 1.125 is inside
C21_Witness ==
  /\ flexion # <<>>
  /\ flexion[1].raw = FDec(9, 8)
  /\ flexion[1].value = FDec(9, 10)

\* C22: analyzeLumbarStability is read-only: a step that returns a result
\* leaves the three histories as they were, and when the previous step
\* already returned a result, with no addDataPoint or reset since, the
\* result is the same.
C22_AnalyzeReadOnly ==
  [][result' # <<>> =>
       /\ lumbarHistory' = lumbarHistory
       /\ hipHistory' = hipHistory
       /\ timeHistory' = timeHistory
       /\ result # <<>> => result' = result]_vars

\* an analysis of a long history that found a phase
C22_Witness ==
  /\ result # <<>>
  /\ Len(hipHistory) >= 10
  /\ Len(timeHistory) = Len(hipHistory)
  /\ Len(result[1].hipMovementPhases) > 0

\* the result analyzeLumbarStability returns for an empty history
EmptyHistoryResult ==
  [hipMovementPhases |-> <<>>,
   lumbarStabilityScore |-> F50,
   lumbarExcessiveMovement |-> F0,
   hipLumbarRatio |-> F0,
   stabilityGrade |-> "fair"]

\* C23: a step that discards the samples of the filter or the data points of
\* the analyzer is a call of resetAngleFilter; it leaves the filter buffer
\* and the three histories empty, so that the next filter(x) returns x and
\* the next analyzeLumbarStability returns the empty-history result.
C23_ResetEmptiesBoth ==
  [][(fed # <<>> /\ fed' = <<>>) \/ (added # <<>> /\ added' = <<>>) =>
       /\ history' = <<>>
       /\ lumbarHistory' = <<>> /\ hipHistory' = <<>> /\ timeHistory' = <<>>
       /\ \A x \in Samples :
            AngleFilter_average(AngleFilter_push(history', x)) = x
       /\ LumbarStability(lumbarHistory', hipHistory') = EmptyHistoryResult
    ]_vars

\* after a reset that discarded filter samples and data points
C23_Witness ==
  /\ discarded = MaxFiltered
  /\ cleared
  /\ history = <<>>
  /\ lumbarHistory = <<>>
  /\ fed = <<>>
  /\ added = <<>>

\* C24: analyzeLumbarStability never fails: in every result the retained
\* phases satisfy 1 <= start <= end <= length - 1, so that every slice a
\* maximum or minimum is taken of is non-empty and inside the two histories,
\* which have the same length; and no division has a zero divisor: the ratio
\* is 0 where the hip variation, or the total hip movement, is 0.
C24_NeverFails ==
  Len(result) = 1 =>
    LET r == result[1]
        n == Len(hipHistory)
    IN  /\ Len(lumbarHistory) = n
        /\ \A k \in 1..Len(r.hipMovementPhases) :
             /\ 1 <= r.hipMovementPhases[k].start
             /\ r.hipMovementPhases[k].start <= r.hipMovementPhases[k].end
             /\ r.hipMovementPhases[k].end <= n - 1
        /\ n < 10 =>
             ((n <= 1 \/ hipHistory[n] = hipHistory[1])
                => r.hipLumbarRatio = F0)
        /\ n >= 10 =>
             (FIsZero(totalHipMovement(r.hipMovementPhases,
                                       Len(r.hipMovementPhases)))
                => r.hipLumbarRatio = F0)

\* an analysis of the full window after eviction that retained a phase
C24_Witness ==
  /\ Len(result) = 1
  /\ Len(added) > DSA_maxHistory
  /\ Len(hipHistory) = DSA_maxHistory
  /\ Len(result[1].hipMovementPhases) > 0

\* an analysis of exactly 10 samples
C24_WitnessTen ==
  /\ Len(result) = 1
  /\ Len(hipHistory) = 10

\* C25: every phase in hipMovementPhases has end - start >= 15.
C25_MinimumDuration ==
  Len(result) = 1 =>
    \A k \in 1..Len(result[1].hipMovementPhases) :
      result[1].hipMovementPhases[k].end
        - result[1].hipMovementPhases[k].start >= minPhaseDuration

\* what the code keeps of C25: a phase closed by a slow frame has
\* end - start >= 15, the phase still open at the end of the history has
\* end - start >= 14
C25_ObservedDuration ==
  Len(result) = 1 =>
    \A k \in 1..Len(result[1].hipMovementPhases) :
      LET p == result[1].hipMovementPhases[k]
      IN  /\ p.end - p.start >= minPhaseDuration - 1
          /\ p.end - p.start = minPhaseDuration - 1
               => k = Len(result[1].hipMovementPhases)
                    /\ p.end = Len(hipHistory) - 1

\* a closed phase followed by an open phase of 15 samples
C25_Witness ==
  /\ Len(result) = 1
  /\ Len(result[1].hipMovementPhases) = 2
  /\ result[1].hipMovementPhases[1].end
       - result[1].hipMovementPhases[1].start >= minPhaseDuration
  /\ result[1].hipMovementPhases[2].end
       - result[1].hipMovementPhases[2].start = minPhaseDuration - 1

\* C26: the phases of a result are in increasing index order and do not
\* overlap: each ends before the next one starts.
C26_PhasesDisjoint ==
  Len(result) = 1 =>
    \A k \in 1..(Len(result[1].hipMovementPhases) - 1) :
      result[1].hipMovementPhases[k].end
        < result[1].hipMovementPhases[k + 1].start

\* a result with three phases
C26_Witness ==
  /\ Len(result) = 1
  /\ Len(result[1].hipMovementPhases) = 3

\* C27: with at least 10 samples and no retained phase the result is ratio
\* 0, score 100, excessive movement 0 and grade 'excellent', whatever the
\* lumbar angle did.
C27_NoPhaseIsExcellent ==
  (Len(result) = 1 /\ Len(hipHistory) >= 10
     /\ result[1].hipMovementPhases = <<>>)
    => /\ result[1].hipLumbarRatio = F0
       /\ result[1].lumbarStabilityScore = F100
       /\ result[1].lumbarExcessiveMovement = F0
       /\ result[1].stabilityGrade = "excellent"

\* no phase although the lumbar angle moved by 40 degrees
C27_Witness ==
  /\ Len(result) = 1
  /\ Len(hipHistory) >= 10
  /\ result[1].hipMovementPhases = <<>>
  /\ FSub(lumbarHistory[Len(lumbarHistory)], lumbarHistory[1]) = F40

\* exactly 10 samples and no phase
C27_WitnessTen ==
  /\ Len(result) = 1
  /\ Len(hipHistory) = 10
  /\ result[1].hipMovementPhases = <<>>

\* C28: while the time series is recording, a metrics update that holds a
\* lumbar flexion/extension angle metric appends a data point with that
\* metric's value: once the recording effect has run, the newest data point
\* carries the value of the angle metric.
C28_AngleMetricRecorded ==
  (timeSeriesData.isRecording /\ ~recordPending
     /\ find(metrics, emittedAngleLabel) # <<>>)
    => /\ timeSeriesData.data # <<>>
       /\ timeSeriesData.data[Len(timeSeriesData.data)].lumbarAngle
            = find(metrics, emittedAngleLabel)[1].value

\* what the app does instead: its recording effect never adds a data point
C28_NothingRecorded == timeSeriesData.data = <<>>

\* the recording effect has run on an angle metric while recording
C28_EffectRan ==
  /\ timeSeriesData.isRecording
  /\ ~recordPending
  /\ find(metrics, emittedAngleLabel) # <<>>
  /\ find(metrics, emittedAngleLabel)[1].value = FInt(20)

\* C29: in useTimeSeriesData isRecording implies a start time; data holds at
\* most 300 points, consecutive in time up to the newest, the oldest having
\* been dropped; addDataPoint changes nothing unless recording with a start
\* time; startRecording empties data and stopRecording keeps it.
C29_TimeSeriesInvariant ==
  LET prev == timeSeriesData
      n == Len(prev.data)
  IN  /\ prev.isRecording => prev.startTime # <<>>
      /\ n <= maxDataPoints
      /\ \A i \in 1..(n - 1) :
           prev.data[i + 1].timestamp = prev.data[i].timestamp + 1
      /\ n > 0 => prev.data[n].timestamp = now - 1
      /\ (n > 0 /\ n < maxDataPoints)
           => prev.data[1].timestamp = prev.startTime[1] + 1
      /\ (~prev.isRecording \/ prev.startTime = <<>>)
           => \A x \in Movements : TimeSeries_addDataPoint(prev, x, now) = prev
      /\ TimeSeries_startRecording(prev, now).data = <<>>
      /\ TimeSeries_stopRecording(prev).data = prev.data

\* a stopped recording that keeps its 300 newest points
C29_Witness ==
  /\ ~timeSeriesData.isRecording
  /\ Len(timeSeriesData.data) = maxDataPoints
  /\ timeSeriesData.data[1].timestamp > timeSeriesData.startTime[1] + 1
  /\ starts = 1

\* a second recording, started on full data
C29_WitnessRestart ==
  /\ timeSeriesData.isRecording
  /\ starts = 2
  /\ Len(timeSeriesData.data) = 1
  /\ timeSeriesData.startTime[1] > maxDataPoints

\* the model loads settled so far are those of attempts 0, 1, ... in order,
\* each attempt going through the URLs in order, and nothing is tried after
\* a load that succeeded
TriedInOrder ==
  \A i \in 1..Len(tried) :
    /\ tried[i].loaded => i = Len(tried)
    /\ tried[i].retry < maxRetries
    /\ tried[i].url \in 1..Len(modelUrls)
    /\ i > 1 =>
         IF tried[i].url = 1
         THEN tried[i - 1].retry < tried[i].retry
         ELSE /\ tried[i - 1].retry = tried[i].retry
              /\ tried[i - 1].url = tried[i].url - 1

LandmarkerSafe ==
  /\ retryCount <= maxRetries
  /\ attempt.pc # "done" => retryCount < maxRetries
  /\ TriedInOrder
  /\ isLandmarkerReady <=> (tried # <<>> /\ tried[Len(tried)].loaded)
  /\ isLandmarkerReady => attempt.pc = "done" /\ landmarkerRef # <<>>
  /\ error # <<>> <=> retryCount = maxRetries
  /\ error # <<>> => attempt.pc = "done"
  /\ ~(isLandmarkerReady /\ error # <<>>)

C30_WitnessError ==
  /\ error # <<>>
  /\ ~isLandmarkerReady
  /\ retryCount = maxRetries

====
